---- MODULE Spec2Model ----
(***************************************************************************)
(* Model of the dashboard server: the tracker client's authentication      *)
(* fallback (src/README.md, class JiraClient), its field projector, and    *)
(* the HTTP facade (src/server.js), and the wiki summary fetcher           *)
(* (src/confluence-client.js).                                             *)
(*                                                                         *)
(* JavaScript strings are modelled as sequences of lexemes (a lexeme plays *)
(* the part of a character), so that concatenation, includes(), split(),   *)
(* trim() and toLowerCase() are computed and not assumed.  JavaScript      *)
(* values are tagged records.                                              *)
(***************************************************************************)
EXTENDS Integers, Sequences, FiniteSets, TLC

VARIABLES config, pc, call, loop, posts, inflight, result, res, proj, fv, wiki

vars == <<config, pc, call, loop, posts, inflight, result, res, proj, fv, wiki>>

---------------------------------------------------------------------------
(* Bounds of the model *)

\* longest column-definition list given to formatIssues
MaxColumns == 2

\* longest issue list given to formatIssues
MaxIssues == 1

---------------------------------------------------------------------------
(* JavaScript strings *)

\* String.prototype.includes: p occurs in s as a contiguous run
Includes(s, p) ==
  \E i \in 0..(Len(s) - Len(p)) : SubSeq(s, i + 1, i + Len(p)) = p

\* String.prototype.startsWith
StartsWith(s, p) ==
  Len(s) >= Len(p) /\ SubSeq(s, 1, Len(p)) = p

\* one lexeme lower-cased
LowerLexeme(x) ==
  CASE x = "Foo" -> "foo"
    [] x = "FOO" -> "foo"
    [] x = "Bar" -> "bar"
    [] x = "Summary" -> "summary"
    [] x = "SUMMARY" -> "summary"
    [] x = "Summary:" -> "summary:"
    [] OTHER -> x

\* String.prototype.toLowerCase
ToLowerCase(s) == [i \in 1..Len(s) |-> LowerLexeme(s[i])]

Whitespace == {" ", "\n", "\r\n"}

RECURSIVE TrimStart(_)
TrimStart(s) ==
  IF s # <<>> /\ Head(s) \in Whitespace THEN TrimStart(Tail(s)) ELSE s

RECURSIVE TrimEnd(_)
TrimEnd(s) ==
  IF s # <<>> /\ s[Len(s)] \in Whitespace
  THEN TrimEnd(SubSeq(s, 1, Len(s) - 1))
  ELSE s

\* token.trim().replace(/\r?\n/g, '')
CleanToken(s) ==
  SelectSeq(TrimEnd(TrimStart(s)), LAMBDA x : x \notin {"\n", "\r\n"})

\* baseUrl.replace(/\/$/, '')
CleanBaseUrl(s) ==
  IF s # <<>> /\ s[Len(s)] = "/" THEN SubSeq(s, 1, Len(s) - 1) ELSE s

\* String.prototype.split('.'): the dotted path cut at every "." lexeme
RECURSIVE SplitDots(_)
SplitDots(s) ==
  LET firstDot == IF \E i \in 1..Len(s) : s[i] = "."
                  THEN CHOOSE i \in 1..Len(s) :
                         s[i] = "." /\ \A j \in 1..(i - 1) : s[j] # "."
                  ELSE 0
  IN IF firstDot = 0
     THEN <<s>>
     ELSE <<SubSeq(s, 1, firstDot - 1)>>
            \o SplitDots(SubSeq(s, firstDot + 1, Len(s)))

---------------------------------------------------------------------------
(* JavaScript values *)

Undefined == [t |-> "undefined"]
Null == [t |-> "null"]
Str(s) == [t |-> "string", s |-> s]
Num(n) == [t |-> "number", n |-> n]
Obj(f) == [t |-> "object", f |-> f]
Arr(a) == [t |-> "array", a |-> a]

\* a thrown exception, carried where a value is expected
Throw(m) == [t |-> "throw", s |-> m]

IsThrow(v) == v.t = "throw"

\* the typeof operator
TypeOf(v) ==
  CASE v.t \in {"object", "array", "null"} -> "object"
    [] OTHER -> v.t

\* ToBoolean
Truthy(v) ==
  CASE v.t \in {"undefined", "null"} -> FALSE
    [] v.t = "string" -> v.s # <<>>
    [] v.t = "number" -> v.n # 0
    [] OTHER -> TRUE

\* a || b
OrElse(a, b) == IF Truthy(a) THEN a ELSE b

\* property read v[name] on a value that is neither null nor undefined;
\* name is a string of one lexeme, or any string for a plain object
Get(v, name) ==
  CASE v.t = "object" ->
         IF Len(name) = 1 /\ name[1] \in DOMAIN v.f THEN v.f[name[1]] ELSE Undefined
    [] v.t = "array" ->
         IF name = <<"length">> THEN Num(Len(v.a))
         ELSE IF name = <<"0">> /\ Len(v.a) >= 1 THEN v.a[1]
         ELSE Undefined
    [] v.t = "string" ->
         IF name = <<"length">> THEN Num(Len(v.s)) ELSE Undefined
    [] OTHER -> Undefined

\* Array.prototype.join / String(v) / v.toString()
RECURSIVE JoinWith(_, _)
RECURSIVE ToStr(_)
JoinWith(a, sep) ==
  IF a = <<>> THEN <<>>
  ELSE LET h == IF Head(a).t \in {"null", "undefined"} THEN <<>> ELSE ToStr(Head(a))
       IN IF Len(a) = 1 THEN h ELSE h \o sep \o JoinWith(Tail(a), sep)

ToStr(v) ==
  CASE v.t = "string" -> v.s
    [] v.t = "number" -> <<ToString(v.n)>>
    [] v.t = "object" -> <<"[object Object]">>
    [] v.t = "array" -> JoinWith(v.a, <<",">>)
    [] v.t = "null" -> <<"null">>
    [] OTHER -> <<"undefined">>

---------------------------------------------------------------------------
(* Field projector *)

TypeErrorNull == <<"TypeError: Cannot read properties of null">>
TypeErrorUndefined == <<"TypeError: Cannot read properties of undefined">>
TypeErrorNotFunction == <<"TypeError: toLowerCase is not a function">>

\* property read that throws on null and undefined, as the language does
GetOrThrow(v, name) ==
  CASE v.t = "null" -> Throw(TypeErrorNull)
    [] v.t = "undefined" -> Throw(TypeErrorUndefined)
    [] OTHER -> Get(v, name)

\* lexemes that open a string Date can parse, with their locale rendering
DateLexemes == {"2024-01-15", "2023-12-31"}

LocaleDate(x) ==
  CASE x = "2024-01-15" -> "1/15/2024"
    [] x = "2023-12-31" -> "12/31/2023"
    [] OTHER -> "Invalid Date"

\* new Date(value): the date lexeme when value is a valid timestamp, else ""
NewDate(value) ==
  CASE value.t = "number" -> "2024-01-15"
    [] value.t = "string" ->
         IF value.s # <<>> /\ Head(value.s) \in DateLexemes THEN Head(value.s) ELSE ""
    [] OTHER ->
         LET p == ToStr(value)
         IN IF p # <<>> /\ Head(p) \in DateLexemes THEN Head(p) ELSE ""

\* Date.prototype.toLocaleDateString
ToLocaleDateString(d) == <<LocaleDate(d)>>

\* Date.prototype.toLocaleString
ToLocaleString(d) ==
  IF d = "" THEN <<"Invalid Date">> ELSE <<LocaleDate(d), ", ", "10:00:00 AM">>

\* value.map(item => item.name || item.toString()): the mapped array, or the
\* first exception an element raises
RECURSIVE MapNames(_)
MapNames(a) ==
  IF a = <<>> THEN Arr(<<>>)
  ELSE LET item == Head(a)
           n == GetOrThrow(item, <<"name">>)
       IN IF IsThrow(n) THEN n
          ELSE LET rest == MapNames(Tail(a))
               IN IF IsThrow(rest) THEN rest
                  ELSE Arr(<<OrElse(n, Str(ToStr(item)))>> \o rest.a)

\* faulty variant: an absent value is blank whatever the type
emptyValueTextBlank(type) == Str(<<>>)

\* what formatFieldValue returns for null and undefined
emptyValueText(type) ==
  IF type = "badge" THEN Str(<<"Unknown">>) ELSE Str(<<>>)

formatFieldValue(value, type) ==
  IF value.t \in {"null", "undefined"}
  THEN emptyValueText(type)
  ELSE CASE type = "link" -> value
         [] type = "confluence" ->
              IF value.t = "string" /\ StartsWith(value.s, <<"http">>) THEN value
              ELSE IF TypeOf(value) = "object"
              THEN OrElse(Get(value, <<"url">>),
                     OrElse(Get(value, <<"value">>),
                       OrElse(Get(value, <<"href">>), Str(ToStr(value)))))
              ELSE Str(ToStr(value))
         [] type = "badge" ->
              IF TypeOf(value) = "object"
              THEN OrElse(Get(value, <<"name">>),
                     OrElse(Get(value, <<"displayName">>), Str(ToStr(value))))
              ELSE Str(ToStr(value))
         [] type = "date" -> Str(ToLocaleDateString(NewDate(value)))
         [] type = "datetime" -> Str(ToLocaleString(NewDate(value)))
         [] OTHER ->
              IF value.t = "array"
              THEN IF value.a = <<>> THEN Str(<<>>)
                   ELSE IF TypeOf(value.a[1]) = "object"
                   THEN LET m == MapNames(value.a)
                        IN IF IsThrow(m) THEN m ELSE Str(JoinWith(m.a, <<", ">>))
                   ELSE Str(JoinWith(value.a, <<", ">>))
              ELSE IF TypeOf(value) = "object"
              THEN OrElse(Get(value, <<"displayName">>),
                     OrElse(Get(value, <<"name">>), Str(ToStr(value))))
              ELSE Str(ToStr(value))

\* labels.some(label => ...): TRUE/FALSE as "Yes"/"No", or the exception the
\* first offending element raises before any element matched
RECURSIVE SomeLabel(_, _)
SomeLabel(a, labelToCheck) ==
  IF a = <<>> THEN Str(<<"No">>)
  ELSE LET label == Head(a)
           n == IF label.t = "string" THEN label
                ELSE GetOrThrow(label, <<"name">>)
           labelStr == IF label.t = "string" \/ IsThrow(n) THEN n
                       ELSE OrElse(n, Str(ToStr(label)))
       IN IF IsThrow(labelStr) THEN labelStr
          ELSE IF labelStr.t # "string" THEN Throw(TypeErrorNotFunction)
          ELSE IF ToLowerCase(labelStr.s) = ToLowerCase(labelToCheck)
          THEN Str(<<"Yes">>)
          ELSE SomeLabel(Tail(a), labelToCheck)

checkLabel(labels, labelToCheck) ==
  IF ~Truthy(labels) THEN Str(<<"No">>)
  ELSE IF labels.t = "array" THEN SomeLabel(labels.a, labelToCheck)
  ELSE IF labels.t = "string"
  THEN IF Includes(ToLowerCase(labels.s), ToLowerCase(labelToCheck))
       THEN Str(<<"Yes">>) ELSE Str(<<"No">>)
  ELSE Str(<<"No">>)

\* the for-loop of getFieldValue over the path segments
RECURSIVE WalkPath(_, _)
WalkPath(value, fieldParts) ==
  IF fieldParts = <<>> THEN value
  ELSE IF Truthy(value) /\ TypeOf(value) = "object"
  THEN WalkPath(Get(value, Head(fieldParts)), Tail(fieldParts))
  ELSE Null

getFieldValue(issue, jiraField) ==
  IF ~Truthy(issue) \/ jiraField = <<>> THEN Null
  ELSE IF jiraField = <<"key">> THEN Get(issue, <<"key">>)
  ELSE IF ~Truthy(Get(issue, <<"fields">>)) THEN Null
  ELSE WalkPath(Get(issue, <<"fields">>), SplitDots(jiraField))

\* formattedIssue[k] = v on an object whose properties keep insertion order
SetProperty(o, k, v) ==
  IF \E i \in 1..Len(o) : o[i].k = k
  THEN [i \in 1..Len(o) |-> IF o[i].k = k THEN [k |-> k, v |-> v] ELSE o[i]]
  ELSE Append(o, [k |-> k, v |-> v])

\* faulty variant: the sourceFieldPath is not required
ColumnAppliesWithoutPath(column) ==
  ~column.isNull /\ column.key # ""

\* whether columns.forEach processes the column at all (README.md line 706)
ColumnApplies(column) ==
  ~column.isNull /\ column.jiraField # <<>> /\ column.key # ""

\* the body of columns.forEach for one column: the row, or an exception
ApplyColumn(formattedIssue, issue, column) ==
  IF ColumnApplies(column)
  THEN LET fieldValue == getFieldValue(issue, column.jiraField)
           out == IF column.type = "labelCheck" /\ column.labelToCheck # <<>>
                  THEN checkLabel(fieldValue, column.labelToCheck)
                  ELSE formatFieldValue(fieldValue, column.type)
       IN IF IsThrow(out) THEN out
          ELSE [t |-> "row", o |-> SetProperty(formattedIssue, column.key, out)]
  ELSE [t |-> "row", o |-> formattedIssue]

RECURSIVE ApplyColumns(_, _, _)
ApplyColumns(formattedIssue, issue, columns) ==
  IF columns = <<>> THEN [t |-> "row", o |-> formattedIssue]
  ELSE LET r == ApplyColumn(formattedIssue, issue, Head(columns))
       IN IF IsThrow(r) THEN r ELSE ApplyColumns(r.o, issue, Tail(columns))

\* the object literal of README.md lines 699-702
InitialRow(issue, baseUrl) ==
  <<[k |-> "url",
     v |-> Str(CleanBaseUrl(baseUrl) \o <<"/browse/">> \o ToStr(Get(issue, <<"key">>)))],
    [k |-> "key", v |-> OrElse(Get(issue, <<"key">>), Str(<<>>))]>>

\* the callback of issues.map for one issue
FormatIssue(issue, columns, baseUrl) ==
  IF issue.t \in {"null", "undefined"}
  THEN Throw(IF issue.t = "null" THEN TypeErrorNull ELSE TypeErrorUndefined)
  ELSE ApplyColumns(InitialRow(issue, baseUrl), issue, columns)

RECURSIVE MapIssues(_, _, _)
MapIssues(issues, columns, baseUrl) ==
  IF issues = <<>> THEN [t |-> "rows", rows |-> <<>>]
  ELSE LET r == FormatIssue(Head(issues), columns, baseUrl)
       IN IF IsThrow(r) THEN r
          ELSE LET rest == MapIssues(Tail(issues), columns, baseUrl)
               IN IF IsThrow(rest) THEN rest
                  ELSE [t |-> "rows", rows |-> <<r.o>> \o rest.rows]

\* formatIssues(issues, useAllColumns): useAllColumns is never read; the
\* columns are always the backend configuration's defaultColumns
formatIssues(issues, defaultColumns, baseUrl) ==
  IF issues.t # "array" THEN [t |-> "rows", rows |-> <<>>]
  ELSE MapIssues(issues.a, defaultColumns, baseUrl)

---------------------------------------------------------------------------
(* Inputs of the field projector *)

Column(key, jiraField, type, labelToCheck) ==
  [isNull |-> FALSE, key |-> key, jiraField |-> jiraField, type |-> type,
   labelToCheck |-> labelToCheck]

\* a null entry in the defaultColumns array
NullColumn ==
  [isNull |-> TRUE, key |-> "", jiraField |-> <<>>, type |-> "", labelToCheck |-> <<>>]

ColumnDefs ==
  { Column("summary", <<"summary">>, "text", <<>>),
    Column("status", <<"status", ".", "name">>, "badge", <<>>),
    Column("", <<"summary">>, "text", <<>>),
    Column("orphan", <<>>, "text", <<>>),
    NullColumn,
    Column("hasFoo", <<"labels">>, "labelCheck", <<"foo">>),
    Column("labels", <<"labels">>, "text", <<>>),
    Column("due", <<"duedate">>, "date", <<>>),
    Column("key", <<"summary">>, "text", <<>>),
    Column("url", <<"doc">>, "link", <<>>),
    Column("summary", <<"status", ".", "name">>, "badge", <<>>) }

SeqsUpTo(S, n) == UNION { [1..k -> S] : k \in 0..n }

ColumnLists == SeqsUpTo(ColumnDefs, MaxColumns)

IssueValues ==
  { Obj([key |-> Str(<<"A-1">>),
         fields |-> Obj([summary |-> Str(<<"Fix it">>),
                         status |-> Obj([name |-> Str(<<"Open">>)]),
                         labels |-> Arr(<<Str(<<"Foo">>), Str(<<"bar">>)>>),
                         duedate |-> Str(<<"2024-01-15", "T10:00:00.000+0000">>),
                         doc |-> Str(<<"http", "://wiki/pages/1">>)])]),
    Obj([fields |-> Obj([summary |-> Str(<<"No key">>),
                         status |-> Obj([name |-> Str(<<"Open">>)])])]),
    Obj([key |-> Str(<<"A-2">>)]),
    Obj([key |-> Str(<<"A-3">>),
         fields |-> Obj([summary |-> Null,
                         status |-> Str(<<"Open">>),
                         labels |-> Arr(<<Null>>),
                         duedate |-> Str(<<"soon">>),
                         doc |-> Obj([href |-> Str(<<"http", "://wiki/x">>)])])]),
    Obj([key |-> Str(<<"A-4">>),
         fields |-> Obj([summary |-> Num(7),
                         labels |-> Arr(<<Obj([name |-> Str(<<"FOO">>)]), Num(3)>>),
                         duedate |-> Null])]),
    Obj([key |-> Str(<<"A-5">>),
         fields |-> Obj([labels |-> Str(<<"foo", ",", "bar">>),
                         status |-> Obj(<<>>)])]),
    Null }

\* what a caller can pass as `issues`: an array, or no array at all
IssueLists == {Undefined} \cup { Arr(a) : a \in SeqsUpTo(IssueValues, MaxIssues) }

BaseUrls == { <<"https://jira.example.com">>, <<"https://jira.example.com", "/">> }

NoOut == [t |-> "none"]

---------------------------------------------------------------------------
(* Transport: what one HTTP request to the tracker can come back with *)

NoResponse == [status |-> 0, statusText |-> <<>>, contentType |-> <<>>, data |-> Undefined]

\* an Error object: message, axios error code, and the HTTP response axios
\* attaches (NoResponse when there is none)
Error(message) == [message |-> message, code |-> "", response |-> NoResponse]

Statuses == {200, 302, 400, 401, 403, 503}

StatusText(status) ==
  CASE status = 200 -> <<"OK">>
    [] status = 302 -> <<"Found">>
    [] status = 400 -> <<"Bad Request">>
    [] status = 401 -> <<"Unauthorized">>
    [] status = 403 -> <<"Forbidden">>
    [] OTHER -> <<>>

ContentTypes == { <<"application/json">>, <<"text/html", ";charset=UTF-8">>, <<>> }

BasicDisabled == <<"Basic Authentication has been disabled">>

\* issue arrays a search response can carry: none, one well-formed issue,
\* one issue with a null label entry
SearchIssues ==
  { Arr(<<>>) } \cup
  { Arr(<<i>>) : i \in { v \in IssueValues :
                           v.t = "object" /\ "key" \in DOMAIN v.f
                             /\ v.f.key \in {Str(<<"A-1">>), Str(<<"A-3">>)} } }

Bodies ==
  { Obj([issues |-> i, total |-> Num(Len(i.a))]) : i \in SearchIssues }
    \cup
  { Obj(<<>>),
    Obj([errorMessages |-> Arr(<<Str(<<"Field 'x' does not exist">>)>>)]),
    Obj([errorMessages |-> Arr(<<Str(<<"Query ", "timeout">>), Str(<<"retry">>)>>)]),
    Obj([errorMessages |-> Arr(<<>>), message |-> Str(<<"Bad query">>)]),
    Obj([message |-> Str(BasicDisabled \o <<" on this instance">>)]),
    Str(<<"<!DOCTYPE", " html>", "<html", ">login</html>">>),
    Str(<<"<!DOCTYPE", " HTML PUBLIC>", "<html", ">login</html>">>),
    Str(<<"<html", ">login</html>">>),
    Str(<<"OK">>),
    Arr(<<>>),
    Null }

Responses ==
  { [status |-> s, statusText |-> StatusText(s), contentType |-> c, data |-> d] :
      s \in Statuses, c \in ContentTypes, d \in Bodies }

\* axios rejections that carry no response (validateStatus accepts 200..599)
Rejections ==
  { [message |-> <<"getaddrinfo ", "ENOTFOUND", " jira.example.com">>,
     code |-> "ENOTFOUND", response |-> NoResponse],
    [message |-> <<"connect ", "ECONNREFUSED">>,
     code |-> "ECONNREFUSED", response |-> NoResponse],
    [message |-> <<"timeout", " of 30000ms exceeded">>,
     code |-> "ECONNABORTED", response |-> NoResponse],
    [message |-> <<>>, code |-> "ERR_UNKNOWN", response |-> NoResponse] }

Outcomes ==
  { [kind |-> "response", response |-> r, error |-> Error(<<>>)] : r \in Responses }
    \cup
  { [kind |-> "reject", response |-> NoResponse, error |-> e] : e \in Rejections }

NoOutcome == [kind |-> "pending", response |-> NoResponse, error |-> Error(<<>>)]

---------------------------------------------------------------------------
(* Tracker client: the three authentication strategies *)

Bearer == "Bearer Token (API v2)"
PAT == "PAT Token Header"
Basic == "Basic Auth"

\* what one awaited request of a strategy leads to
StepReturn(response) == [k |-> "return", response |-> response, error |-> Error(<<>>)]
StepThrow(error) == [k |-> "throw", response |-> NoResponse, error |-> error]
StepNext == [k |-> "next", response |-> NoResponse, error |-> Error(<<>>)]

IsHtmlString(data) ==
  data.t = "string"
    /\ (Includes(data.s, <<"<!DOCTYPE">>) \/ Includes(data.s, <<"<html">>))

\* faulty variant: every answer with status 200 is returned, whatever its body
tryBearerTokenRequestAnyBody(o) ==
  IF o.kind = "reject" THEN StepThrow(o.error)
  ELSE IF o.response.status = 200 THEN StepReturn(o.response)
  ELSE StepThrow(Error(<<"HTTP ", ToString(o.response.status), ": ">>
                         \o o.response.statusText))

\* tryBearerTokenRequest after its await: README.md lines 587-660
tryBearerTokenRequest(o) ==
  IF o.kind = "reject" THEN StepThrow(o.error)
  ELSE LET response == o.response
           responseData == response.data
           em == Get(responseData, <<"errorMessages">>)
       IN IF response.status # 200
          THEN IF response.status \in {401, 403}
               THEN StepThrow(Error(<<"Authentication failed. Please check your Bearer token (PAT) is valid and has not expired.">>))
               ELSE IF response.status = 302
               THEN StepThrow(Error(<<"Authentication redirect detected. Please verify your Bearer token is correct.">>))
               ELSE IF IsHtmlString(responseData)
               THEN StepThrow(Error(<<"Received HTML instead of JSON. Please check your Bearer token is valid.">>))
               ELSE IF Truthy(responseData) /\ TypeOf(responseData) = "object" /\ Truthy(em)
               THEN IF em.t = "array"
                    THEN StepThrow(Error(<<"Jira API error: ">> \o JoinWith(em.a, <<"; ">>)))
                    ELSE StepThrow(Error(<<"TypeError: join is not a function">>))
               ELSE StepThrow(Error(<<"HTTP ", ToString(response.status), ": ">>
                      \o (IF response.statusText # <<>> THEN response.statusText
                          ELSE <<"Unknown error">>)))
          ELSE IF Includes(response.contentType, <<"text/html">>)
                  \/ (responseData.t = "string" /\ Includes(responseData.s, <<"<!DOCTYPE">>))
          THEN StepThrow(Error(<<"Received HTML response instead of JSON. Please verify your Bearer token.">>))
          ELSE IF ~Truthy(responseData) \/ TypeOf(responseData) # "object"
          THEN StepThrow(Error(<<"Invalid response format from Jira API. Expected JSON but got: ",
                                 TypeOf(responseData)>>))
          ELSE StepReturn(response)

\* number of header formats tryPATTokenRequest tries (README.md lines 428-433)
PatFormats == 4

\* one iteration of the loop of tryPATTokenRequest, after its await:
\* README.md lines 464-483
tryPATTokenRequest(vi, o) ==
  IF o.kind = "reject"
  THEN IF vi = PatFormats THEN StepThrow(o.error) ELSE StepNext
  ELSE IF o.response.status = 200 THEN StepReturn(o.response)
  ELSE IF vi = PatFormats
  THEN StepThrow(Error(<<"All PAT token header formats failed">>))
  ELSE StepNext

\* README.md lines 494-501
usernameFormats(username) ==
  LET u == IF username # <<>> THEN username ELSE <<"namratha.singh">>
  IN << u,
        u \o <<"@nutanix.com">>,
        IF Includes(u, <<"@">>) THEN u ELSE u \o <<"@nutanix.com">> >>

\* one iteration of the loop of tryBasicAuthRequest, after its await:
\* README.md lines 528-552
tryBasicAuthRequest(vi, username, o) ==
  LET formats == usernameFormats(username)
      isLast == formats[vi] = formats[Len(formats)]
      afterLoop == StepThrow(Error(BasicDisabled \o <<" on this instance">>))
      continue == IF vi = Len(formats) THEN afterLoop ELSE StepNext
      caught(error) == IF isLast THEN StepThrow(error) ELSE continue
  IN IF o.kind = "reject" THEN caught(o.error)
     ELSE LET response == o.response
              message == IF response.data.t \in {"null", "undefined"} THEN Undefined
                         ELSE Get(response.data, <<"message">>)
          IN IF response.status = 200 THEN StepReturn(response)
             ELSE IF response.status = 403 /\ message.t = "string"
                     /\ Includes(message.s, BasicDisabled)
             THEN continue
             ELSE caught(Error(<<"HTTP ", ToString(response.status), ": ">>
                    \o (IF Truthy(message) THEN ToStr(message) ELSE response.statusText)))

---------------------------------------------------------------------------
(* Tracker client: requests, the strategy loop, error reporting *)

SearchUrl(baseUrl) == CleanBaseUrl(baseUrl) \o <<"/rest/api/2/search">>

\* the k-th request a strategy issues: the axios.post calls of README.md
\* lines 566-585 (bearer), 448-462 (PAT header), 509-526 (basic)
PostOf(strategy, vi, cfg, token, fields) ==
  LET patToken == CleanToken(cfg.pat.s)
      header ==
        CASE strategy = Bearer ->
               <<"Authorization", <<"Bearer ">> \o CleanToken(OrElse(token, cfg.pat).s)>>
          [] strategy = PAT ->
               << <<"X-API-Token", patToken>>,
                  <<"X-Auth-Token", patToken>>,
                  <<"Authorization", <<"Token ">> \o patToken>>,
                  <<"Authorization", <<"PAT ">> \o patToken>> >>[vi]
          [] OTHER ->
               <<"Authorization",
                 <<"Basic ", "base64(">> \o usernameFormats(cfg.username)[vi]
                    \o <<":">> \o patToken \o <<")">> >>
  IN [strategy |-> strategy, variant |-> vi, url |-> SearchUrl(cfg.baseUrl),
      header |-> header, fields |-> fields,
      timeout |-> IF strategy = Basic THEN 0 ELSE 30000]

\* faulty variant: the other strategies are added whatever the token
authMethodsAlways(token, pat) == <<Bearer, PAT, Basic>>

\* the auth-method list of makeJiraRequest(jql, fields, token):
\* README.md lines 373-394

authMethods(token, pat) ==
  LET tokenToUse == OrElse(token, pat)
  IN <<Bearer>> \o (IF ~Truthy(tokenToUse) THEN <<PAT, Basic>> ELSE <<>>)

\* the entry makeJiraRequest pushes on `errors` (README.md lines 405-412)
ErrorDetails(method, error) ==
  [method |-> method, message |-> error.message, status |-> error.response.status]

\* faulty variant: the last error's message is dropped
allFailedUnknown(errors) ==
  Error(<<"All authentication methods failed. Last error: ", "Unknown error">>)

\* the Error makeJiraRequest throws on exhaustion (README.md line 420)
allFailed(errors) ==
  Error(<<"All authentication methods failed. Last error: ">>
          \o (IF errors # <<>> /\ errors[Len(errors)].message # <<>>
              THEN errors[Len(errors)].message
              ELSE <<"Unknown error">>))

\* faulty variant: when the last strategy fails the loop returns instead of
\* throwing
loopReturnsOnExhaustion(step, mi, methods) ==
  IF step.k = "return" THEN "return"
  ELSE IF mi < Len(methods) THEN "continue"
  ELSE "return"

\* what the loop of makeJiraRequest does once a strategy has settled:
\* README.md lines 397-416
loopAfter(step, mi, methods) ==
  IF step.k = "return" THEN "return"
  ELSE IF mi < Len(methods) THEN "continue"
  ELSE "exhausted"

TimeoutHint == <<"Request timed out. Please check your network connection.">>

ConnectHint(baseUrl) ==
  <<"Cannot connect to ">> \o baseUrl
    \o <<". Please check your network connection and VPN status.">>

StatusMessage(status, statusText) ==
  CASE status = 401 -> <<"Authentication failed. Please check your PAT token in jira-key-private.txt">>
    [] status = 403 -> <<"Access forbidden. Please check your Jira permissions.">>
    [] status = 404 -> <<"Resource not found. Please check your Jira URL and filter ID.">>
    [] status = 500 -> <<"Jira server error. Please try again later.">>
    [] status = 503 -> <<"Jira service unavailable. Please try again later.">>
    [] OTHER -> <<"HTTP ", ToString(status), ": ">> \o statusText

\* README.md lines 833-879
extractErrorMessage(error, baseUrl) ==
  LET data == error.response.data
      hasData == error.response # NoResponse /\ data.t \notin {"null", "undefined"}
      em == IF hasData THEN Get(data, <<"errorMessages">>) ELSE Undefined
      msg == IF hasData THEN Get(data, <<"message">>) ELSE Undefined
  IN IF em.t = "array" /\ Len(em.a) > 0 THEN JoinWith(em.a, <<"; ">>)
     ELSE IF Truthy(msg) THEN ToStr(msg)
     ELSE IF error.response # NoResponse /\ error.response.status # 0
     THEN StatusMessage(error.response.status, error.response.statusText)
     ELSE IF error.code \in {"ENOTFOUND", "ECONNREFUSED"} THEN ConnectHint(baseUrl)
     ELSE IF error.code = "ECONNABORTED" \/ Includes(error.message, <<"timeout">>)
     THEN TimeoutHint
     ELSE IF error.message # <<>> THEN error.message
     ELSE <<"Unknown error occurred">>

FetchPrefix == <<"Failed to fetch all Jira data: ">>
RefreshPrefix == <<"Failed to refresh columns: ">>

HtmlLoginMessage ==
  <<"Bearer token authentication failed. The token works for PAT management but not for search API. Please check if your Jira instance requires a different authentication method for API v3 endpoints.">>

\* which client method serves an endpoint
ClientMethod(entry) ==
  IF entry = "/api/fetch-all-data" THEN "fetchAllData" ELSE "refreshColumns"

\* the fields a client method asks the tracker for: README.md lines 259-264
\* (fetchAllData) and 316-322 (refreshColumns); an exception when a column
\* entry is null
FieldsOf(method, cfg) ==
  LET defaults == << <<"key">>, <<"summary">>, <<"status">> >>
  IN IF method = "fetchAllData"
     THEN [t |-> "fields",
           f |-> IF cfg.allPossibleFields # <<>> THEN cfg.allPossibleFields ELSE defaults]
     ELSE IF \E i \in 1..Len(cfg.defaultColumns) : cfg.defaultColumns[i].isNull
     THEN Throw(TypeErrorNull)
     ELSE [t |-> "fields",
           f |-> IF cfg.defaultColumns # <<>>
                 THEN [i \in 1..Len(cfg.defaultColumns) |-> cfg.defaultColumns[i].jiraField]
                 ELSE defaults]

\* the catch blocks of fetchAllData / refreshColumns: README.md lines 280-294
\* and 337-352
ClientThrow(method, error, cfg) ==
  [k |-> "throw", data |-> Undefined,
   error |-> Error((IF method = "fetchAllData" THEN FetchPrefix ELSE RefreshPrefix)
                     \o extractErrorMessage(error, cfg.baseUrl))]

\* fetchAllData / refreshColumns once makeJiraRequest has settled:
\* README.md lines 267-279 and 324-336
ClientSettle(method, settled, cfg) ==
  IF settled.k = "throw" THEN ClientThrow(method, settled.error, cfg)
  ELSE LET data == settled.response.data
       IN IF data.t = "string" /\ Includes(data.s, <<"<!DOCTYPE", " html>">>)
          THEN ClientThrow(method, Error(HtmlLoginMessage), cfg)
          ELSE IF data.t \in {"null", "undefined"}
          THEN ClientThrow(method,
                 Error(IF data.t = "null" THEN TypeErrorNull ELSE TypeErrorUndefined), cfg)
          ELSE [k |-> "return", data |-> data, error |-> Error(<<>>)]

NoResult == [k |-> "none", data |-> Undefined, error |-> Error(<<>>)]

---------------------------------------------------------------------------
(* HTTP facade *)

NoTokenMessage ==
  <<"No authentication token provided.",
    " Please authenticate first using the Authenticate button.">>

NoRes ==
  [status |-> 0, success |-> FALSE, error |-> <<>>, details |-> FALSE,
   total |-> Undefined, issues |-> <<>>, message |-> <<>>, data |-> Undefined]

\* faulty variant: no endpoint checks the header
RequiresTokenNever(entry) == FALSE

\* whether an endpoint refuses a request without the x-jira-token header:
\* server.js lines 75-80 and 121-126; /api/issues (161-179) has no such check

RequiresToken(entry) == entry \in {"/api/fetch-all-data", "/api/refresh-columns"}

\* server.js lines 76-79 and 122-125
NoTokenReply ==
  [NoRes EXCEPT !.status = 401, !.success = FALSE, !.error = NoTokenMessage]

\* error.response?.status || 500 (server.js lines 105 and 151)
statusCode(error) ==
  IF error.response # NoResponse /\ error.response.status # 0
  THEN error.response.status
  ELSE 500

\* faulty variant: the stack is sent whatever the mode
CatchReplyWithStack(entry, error, cfg) ==
  IF entry = "/api/issues"
  THEN [NoRes EXCEPT !.status = 500, !.error = error.message]
  ELSE [NoRes EXCEPT !.status = statusCode(error), !.error = error.message,
                     !.details = TRUE]

\* the catch block of a handler: server.js lines 97-111, 143-157, 172-178
CatchReply(entry, error, cfg) ==
  IF entry = "/api/issues"
  THEN [NoRes EXCEPT !.status = 500, !.error = error.message]
  ELSE [NoRes EXCEPT !.status = statusCode(error), !.error = error.message,
                     !.details = (cfg.nodeEnv = "development")]

\* a handler once the client method has settled: server.js lines 85-96,
\* 131-142, 164-171
HandlerSettle(entry, clientResult, cfg) ==
  IF clientResult.k = "throw" THEN CatchReply(entry, clientResult.error, cfg)
  ELSE LET formattedIssues ==
             formatIssues(Get(clientResult.data, <<"issues">>), cfg.defaultColumns,
                          cfg.baseUrl)
       IN IF IsThrow(formattedIssues)
          THEN CatchReply(entry, Error(formattedIssues.s), cfg)
          ELSE [NoRes EXCEPT
                  !.status = 200, !.success = TRUE,
                  !.total = Get(clientResult.data, <<"total">>),
                  !.issues = formattedIssues.rows,
                  !.message =
                    CASE entry = "/api/fetch-all-data" -> <<"All data fetched successfully">>
                      [] entry = "/api/refresh-columns" -> <<"Columns refreshed successfully">>
                      [] OTHER -> <<>>]

---------------------------------------------------------------------------
(* Wiki summary fetcher: the functions of ConfluenceClient *)

\* extractUrl(fieldValue): confluence-client.js lines 55-69
extractUrl(fieldValue) ==
  IF ~Truthy(fieldValue) THEN Null
  ELSE IF fieldValue.t = "string" /\ StartsWith(fieldValue.s, <<"http">>) THEN fieldValue
  ELSE IF TypeOf(fieldValue) = "object"
  THEN OrElse(Get(fieldValue, <<"url">>),
         OrElse(Get(fieldValue, <<"value">>),
           OrElse(Get(fieldValue, <<"href">>), Null)))
  ELSE Null

\* the least element of a non-empty set of positions
Leftmost(S) == CHOOSE i \in S : \A j \in S : i <= j

\* lexemes made of decimal digits only
DigitLexemes == {"123456789", "42", "7"}

\* the longest run of digits starting at position i of s: what (\d+) captures
RECURSIVE DigitRun(_, _)
DigitRun(s, i) ==
  IF i <= Len(s) /\ s[i] \in DigitLexemes THEN <<s[i]>> \o DigitRun(s, i + 1) ELSE <<>>

\* faulty variant: only the path form is recognised
PageIdAtPagesOnly(s, i) ==
  i < Len(s) /\ s[i] = "pages/" /\ s[i + 1] \in DigitLexemes

\* positions where /pageId=(\d+)|pages\/(\d+)/ can match
PageIdAt(s, i) ==
  i < Len(s) /\ s[i] \in {"pageId=", "pages/"} /\ s[i + 1] \in DigitLexemes

\* lexemes that end in a slash
SlashEnded == {"/", "://wiki.example.com/", "://wiki.example.com/spaces/ENG/"}

\* positions where /\/pages\/(\d+)/ can match
PathAt(s, i) ==
  1 < i /\ i < Len(s) /\ s[i - 1] \in SlashEnded /\ s[i] = "pages/"
    /\ s[i + 1] \in DigitLexemes

TypeErrorNoMatch == <<"TypeError: match is not a function">>

\* extractPageId(confluenceUrl): confluence-client.js lines 25-52
extractPageId(confluenceUrl) ==
  IF ~Truthy(confluenceUrl) THEN Null
  ELSE LET urlString ==
             IF TypeOf(confluenceUrl) = "object"
             THEN OrElse(Get(confluenceUrl, <<"url">>),
                    OrElse(Get(confluenceUrl, <<"value">>), Str(ToStr(confluenceUrl))))
             ELSE confluenceUrl
       IN IF ~Truthy(urlString) THEN Null
          ELSE IF urlString.t # "string" THEN Throw(TypeErrorNoMatch)
          ELSE LET u == urlString.s
                   hits == { i \in 1..Len(u) : PageIdAt(u, i) }
                   paths == { i \in 1..Len(u) : PathAt(u, i) }
               IN IF hits # {} THEN Str(DigitRun(u, Leftmost(hits) + 1))
                  ELSE IF paths # {} THEN Str(DigitRun(u, Leftmost(paths) + 1))
                  ELSE Null

\* lexemes that are one HTML tag
HeadingOpen23 == {"<h2>", "<h3>", "<h2 id=\"s\">"}
HeadingOpen123 == HeadingOpen23 \cup {"<h1>"}
HeadingClose23 == {"</h2>", "</h3>"}
ParagraphOpen == {"<p>", "<p class=\"lead\">"}
StrongOpen == {"<strong>"}

TagLexemes ==
  HeadingOpen123 \cup HeadingClose23 \cup ParagraphOpen \cup StrongOpen
    \cup {"</h1>", "</p>", "</strong>", "<h4>", "</h4>", "<br/>"}

\* one pass of String.prototype.replace(/x/g, y) over the lexemes
ReplaceAll(s, from, to) == [i \in 1..Len(s) |-> IF s[i] = from THEN to ELSE s[i]]

\* the lexeme left of "&amp;lt;" once "&amp;" has become "&"
AfterAmp(x) ==
  CASE x = "&amp;" -> "&"
    [] x = "&amp;lt;" -> "&lt;"
    [] OTHER -> x

\* text.replace(/\s+/g, ' '): every run of white space becomes one space
RECURSIVE CollapseSpaces(_)
CollapseSpaces(s) ==
  IF s = <<>> THEN <<>>
  ELSE IF Head(s) \in Whitespace
  THEN LET rest == CollapseSpaces(Tail(s))
       IN IF rest # <<>> /\ Head(rest) = " " THEN rest ELSE <<" ">> \o rest
  ELSE <<Head(s)>> \o CollapseSpaces(Tail(s))

\* cleanHtml(html) for a string: confluence-client.js lines 170-189
cleanHtml(html) ==
  IF html = <<>> THEN <<>>
  ELSE LET noTags == [i \in 1..Len(html) |->
                        IF html[i] \in TagLexemes THEN " " ELSE html[i]]
           nbsp == ReplaceAll(noTags, "&nbsp;", " ")
           amp == [i \in 1..Len(nbsp) |-> AfterAmp(nbsp[i])]
           lt == ReplaceAll(amp, "&lt;", "<")
           gt == ReplaceAll(lt, "&gt;", ">")
           quot == ReplaceAll(gt, "&quot;", "\"")
           apos == ReplaceAll(quot, "&#39;", "'")
       IN TrimEnd(TrimStart(CollapseSpaces(apos)))

\* number of characters a lexeme stands for
LexLen(x) == IF x = "lorem600" THEN 600 ELSE 1

\* String.prototype.substring(0, n)
RECURSIVE Substring(_, _)
Substring(s, n) ==
  IF s = <<>> \/ n <= 0 THEN <<>>
  ELSE IF LexLen(Head(s)) <= n
  THEN <<Head(s)>> \o Substring(Tail(s), n - LexLen(Head(s)))
  ELSE <<Head(s) \o "[0," \o ToString(n) \o ")">>

\* length of the fallback summary (confluence-client.js line 162)
FallbackChars == 500

\* Pattern 1, /<h[23][^>]*>Summary<\/h[23]>(.*?)(?=<h[123]|$)/is: the match
\* starts at i; the capture stops before the next heading or at the end
HeadingMatches(d) ==
  { i \in 1..(Len(d) - 2) :
      /\ d[i] \in HeadingOpen23
      /\ ToLowerCase(<<d[i + 1]>>) = <<"summary">>
      /\ d[i + 2] \in HeadingClose23 }

HeadingCapture(d, i) ==
  LET stops == { j \in (i + 3)..Len(d) : d[j] \in HeadingOpen123 }
  IN SubSeq(d, i + 3, IF stops = {} THEN Len(d) ELSE Leftmost(stops) - 1)

\* Pattern 2, /<p[^>]*><strong[^>]*>Summary:?<\/strong>(.*?)<\/p>/is
StrongMatches(d) ==
  { i \in 1..(Len(d) - 4) :
      /\ d[i] \in ParagraphOpen
      /\ d[i + 1] \in StrongOpen
      /\ ToLowerCase(<<d[i + 2]>>) \in {<<"summary:">>, <<"summary">>}
      /\ d[i + 3] = "</strong>"
      /\ \E j \in (i + 4)..Len(d) : d[j] = "</p>" }

\* Pattern 3, /<p[^>]*>(.*?)<\/p>/is
ParagraphMatches(d) ==
  { i \in 1..(Len(d) - 1) :
      d[i] \in ParagraphOpen /\ \E j \in (i + 1)..Len(d) : d[j] = "</p>" }

\* (.*?) up to the first </p> at or after position from
UpToParagraphEnd(d, from) ==
  SubSeq(d, from, Leftmost({ j \in from..Len(d) : d[j] = "</p>" }) - 1)

\* the index of the first pattern of extractSummary that matches: 4 is the
\* fallback
summaryPatternBoldFirst(d) ==
  IF StrongMatches(d) # {} THEN 2
  ELSE IF HeadingMatches(d) # {} THEN 1
  ELSE IF ParagraphMatches(d) # {} THEN 3
  ELSE 4

\* faulty variant: a heading match with nothing under it does not count
summaryPatternNonEmpty(d) ==
  IF HeadingMatches(d) # {}
       /\ cleanHtml(HeadingCapture(d, Leftmost(HeadingMatches(d)))) # <<>> THEN 1
  ELSE IF StrongMatches(d) # {} THEN 2
  ELSE IF ParagraphMatches(d) # {} THEN 3
  ELSE 4

summaryPattern(d) ==
  IF HeadingMatches(d) # {} THEN 1
  ELSE IF StrongMatches(d) # {} THEN 2
  ELSE IF ParagraphMatches(d) # {} THEN 3
  ELSE 4

\* extractSummary(htmlContent): confluence-client.js lines 132-167
extractSummary(htmlContent) ==
  IF ~Truthy(htmlContent) THEN Null
  ELSE IF htmlContent.t # "string" THEN Null
  ELSE LET d == htmlContent.s
           n == summaryPattern(d)
       IN CASE n = 1 -> Str(cleanHtml(HeadingCapture(d, Leftmost(HeadingMatches(d)))))
            [] n = 2 -> Str(cleanHtml(UpToParagraphEnd(d, Leftmost(StrongMatches(d)) + 4)))
            [] n = 3 -> Str(cleanHtml(UpToParagraphEnd(d, Leftmost(ParagraphMatches(d)) + 1)))
            [] OTHER -> Str(Substring(cleanHtml(d), FallbackChars))

---------------------------------------------------------------------------
(* Wiki summary fetcher: fetchPageContent, getSummary, getSummaries *)

\* this.baseUrl of ConfluenceClient (confluence-client.js line 7)
WikiBaseUrl == <<"https://nutanix.atlassian.net/wiki">>

\* confluence-client.js line 104
ApiUrl(pageId) ==
  WikiBaseUrl \o <<"/rest/api/content/">> \o pageId \o <<"?expand=body.storage,version">>

\* a?.name
OptGet(v, name) == IF v.t \in {"null", "undefined"} THEN Undefined ELSE Get(v, name)

\* what axios.get comes back with: a response, or a rejection
WikiResponse(status, data) ==
  [kind |-> "response", status |-> status, data |-> data, message |-> <<>>]

WikiRejection(message) ==
  [kind |-> "reject", status |-> 0, data |-> Undefined, message |-> message]

\* axios.get with its default validateStatus: a status outside 2xx rejects
axiosGet(o) ==
  IF o.kind = "response" /\ ~(200 <= o.status /\ o.status < 300)
  THEN WikiRejection(<<"Request failed with status code ", ToString(o.status)>>)
  ELSE o

\* the object fetchPageContent returns on success (lines 114-119)
PageContent(title, body, version) ==
  [k |-> "content", success |-> TRUE, error |-> Undefined, title |-> title,
   body |-> body, version |-> version]

\* the catch block of fetchPageContent (lines 120-128)
fetchPageContentCatch(message) ==
  [k |-> "content", success |-> FALSE, error |-> Str(message), title |-> Null,
   body |-> Null, version |-> Undefined]

\* fetchPageContent up to its await: the GET it issues, or what it returns
\* without a request (lines 85-112)
fetchPageContentStart(confluenceUrl, userToken, token) ==
  LET url == extractUrl(confluenceUrl)
      pageId == IF Truthy(url) THEN extractPageId(url) ELSE Null
      tok == OrElse(userToken, token)
  IN IF ~Truthy(url) THEN fetchPageContentCatch(<<"Invalid Confluence URL format">>)
     ELSE IF IsThrow(pageId) THEN fetchPageContentCatch(pageId.s)
     ELSE IF ~Truthy(pageId)
     THEN fetchPageContentCatch(<<"Could not extract page ID from Confluence URL">>)
     ELSE IF ~Truthy(tok)
     THEN fetchPageContentCatch(<<"Confluence token not available. Please provide token.">>)
     ELSE [k |-> "get", apiUrl |-> ApiUrl(pageId.s),
           authorization |-> <<"Bearer ">> \o ToStr(tok)]

\* fetchPageContent after its await (lines 106-128)
fetchPageContentSettle(o) ==
  LET r == axiosGet(o)
      title == GetOrThrow(r.data, <<"title">>)
  IN IF r.kind = "reject" THEN fetchPageContentCatch(r.message)
     ELSE IF IsThrow(title) THEN fetchPageContentCatch(title.s)
     ELSE PageContent(title,
            OrElse(OptGet(OptGet(Get(r.data, <<"body">>), <<"storage">>), <<"value">>),
                   Str(<<>>)),
            OrElse(OptGet(Get(r.data, <<"version">>), <<"number">>), Num(1)))

\* how the promise of getSummary settles
Resolved(success, summary, title, error) ==
  [settled |-> "resolved", success |-> success, summary |-> summary,
   title |-> title, error |-> error]

Rejected(message) ==
  [settled |-> "rejected", success |-> FALSE, summary |-> Null,
   title |-> Undefined, error |-> Str(message)]

\* faulty variant: the failure of the page fetch is thrown to the caller
getSummaryThrows(pageContent) ==
  IF ~pageContent.success THEN Rejected(ToStr(pageContent.error))
  ELSE Resolved(TRUE, extractSummary(pageContent.body), pageContent.title, Null)

\* getSummary once fetchPageContent has returned (lines 205-220)
getSummaryFrom(pageContent) ==
  IF ~pageContent.success
  THEN Resolved(FALSE, Null, Undefined,
                OrElse(pageContent.error, Str(<<"Failed to fetch page">>)))
  ELSE Resolved(TRUE, extractSummary(pageContent.body), pageContent.title, Null)

\* faulty variant: the first probe result is taken even when it is empty
summaryUrlUnchecked(confluenceUrl) ==
  IF confluenceUrl.t = "string" THEN confluenceUrl ELSE Str(ToStr(confluenceUrl))

\* the URL getSummary extracts from its argument (line 194)
summaryUrl(confluenceUrl) == extractUrl(confluenceUrl)

\* getSummary up to its await: the GET issued, or the settled result
\* (lines 192-203)
getSummaryStart(confluenceUrl, userToken, token) ==
  LET url == summaryUrl(confluenceUrl)
  IN IF ~Truthy(url)
     THEN [k |-> "done", url |-> url,
           result |-> Resolved(FALSE, Null, Undefined,
                               Str(<<"No valid Confluence URL provided">>))]
     ELSE LET p == fetchPageContentStart(url, userToken, token)
          IN IF p.k = "get"
             THEN [k |-> "get", url |-> url, apiUrl |-> p.apiUrl,
                   authorization |-> p.authorization]
             ELSE [k |-> "done", url |-> url, result |-> getSummaryFrom(p)]

\* getSummary after the GET has come back
getSummarySettle(o) == getSummaryFrom(fetchPageContentSettle(o))

\* the delay between two fetches of a batch, in ms (line 237)
StaggerMs == 100

\* faulty variant: no delay at all
delayNone(index) == 0

\* the timer set for list index `index`, counted from 0 (line 237)
delay(index) == index * StaggerMs

\* faulty variant: failed summaries are left out of the mapping
collectSuccessful(urls, summaries) ==
  LET RECURSIVE put(_, _)
      put(o, i) ==
        IF i > Len(urls) THEN o
        ELSE put(IF summaries[i].success
                 THEN SetProperty(o, ToStr(urls[i]), summaries[i]) ELSE o, i + 1)
  IN [t |-> "map", o |-> put(<<>>, 1)]

\* faulty variant: a key that is already present is not overwritten
collectFirstOccurrence(urls, summaries) ==
  LET RECURSIVE put(_, _)
      put(o, i) ==
        IF i > Len(urls) THEN o
        ELSE put(IF \E e \in 1..Len(o) : o[e].k = ToStr(urls[i])
                 THEN o ELSE SetProperty(o, ToStr(urls[i]), summaries[i]), i + 1)
  IN [t |-> "map", o |-> put(<<>>, 1)]

\* results[url] = summaries[index] for every index (lines 243-247)
collectResults(urls, summaries) ==
  LET RECURSIVE put(_, _)
      put(o, i) ==
        IF i > Len(urls) THEN o
        ELSE put(SetProperty(o, ToStr(urls[i]), summaries[i]), i + 1)
  IN [t |-> "map", o |-> put(<<>>, 1)]

---------------------------------------------------------------------------
(* State *)

NoLoop ==
  [authMethods |-> <<>>, mi |-> 0, vi |-> 0, errors |-> <<>>, token |-> Undefined,
   fields |-> <<>>, answer |-> NoOutcome, search |-> StepNext]

NoCall == [entry |-> "", userToken |-> Undefined]

NoProj == [columns |-> <<>>, issues |-> Undefined, baseUrl |-> <<>>, out |-> NoOut]

\* no client function has been called on its own
NoFv == [fn |-> "", value |-> Undefined, text |-> <<>>, out |-> NoOut]

\* no summary has been asked of the wiki client; `gets` lists the GETs issued
\* and `order` the list positions in the order their getSummary settled
NoWiki ==
  [fn |-> "", urls |-> <<>>, userToken |-> Null, token |-> Null, now |-> 0,
   calls |-> <<>>, gets |-> <<>>, order |-> <<>>, returned |-> NoOut]

Endpoints == {"/api/fetch-all-data", "/api/refresh-columns", "/api/issues"}

\* values of the x-jira-token request header: absent, empty, a token
HeaderValues == {Undefined, Str(<<>>), Str(<<"user-token">>)}

Schemas ==
  { << Column("summary", <<"summary">>, "text", <<>>),
       Column("hasFoo", <<"labels">>, "labelCheck", <<"foo">>) >>,
    << Column("status", <<"status", ".", "name">>, "badge", <<>>), NullColumn >> }

\* configurations that pass validateConfiguration (README.md lines 239-249):
\* base URL and token are both non-empty
Configs ==
  [baseUrl : BaseUrls,
   pat : {Str(<<"cfg-pat">>), Str(<<"cfg-pat", "\n">>)},
   username : {<<>>},
   defaultColumns : Schemas,
   allPossibleFields : {<< <<"key">>, <<"summary">>, <<"status">>, <<"labels">> >>},
   nodeEnv : {"development", "production"}]

\* the client method starts: everything up to the first await, or up to the
\* reply when nothing is awaited
Start(entry, hdr, token) ==
  LET method == ClientMethod(entry)
      tokenToUse == OrElse(token, config.pat)
      fields == FieldsOf(method, config)
      methods == authMethods(tokenToUse, config.pat)
  IN /\ call' = [entry |-> entry, userToken |-> hdr]
     /\ IF IsThrow(fields)
        THEN LET r == ClientThrow(method, Error(fields.s), config)
             IN /\ result' = r
                /\ res' = CatchReply(entry, r.error, config)
                /\ pc' = "done"
                /\ loop' = NoLoop
                /\ posts' = <<>>
                /\ inflight' = <<>>
        ELSE LET p == PostOf(methods[1], 1, config, tokenToUse, fields.f)
             IN /\ result' = NoResult
                /\ res' = NoRes
                /\ pc' = "await"
                /\ loop' = [NoLoop EXCEPT !.authMethods = methods, !.mi = 1, !.vi = 1,
                                          !.token = tokenToUse, !.fields = fields.f]
                /\ posts' = <<p>>
                /\ inflight' = <<[strategy |-> p.strategy, variant |-> p.variant]>>

\* one HTTP request arrives and is handled up to its first await; requests
\* share no mutable state, so a behaviour follows one request
Handle(entry, hdr) ==
  /\ pc = "idle"
  /\ IF RequiresToken(entry) /\ ~Truthy(hdr)
     THEN /\ call' = [entry |-> entry, userToken |-> hdr]
          /\ res' = NoTokenReply
          /\ pc' = "done"
          /\ result' = NoResult
          /\ loop' = NoLoop
          /\ posts' = <<>>
          /\ inflight' = <<>>
     ELSE Start(entry, hdr, IF entry = "/api/issues" THEN Null ELSE hdr)
  /\ UNCHANGED <<config, proj, fv, wiki>>

\* GET /api/fetch-all-data (server.js lines 69-112)
FetchAllData == \E hdr \in HeaderValues : Handle("/api/fetch-all-data", hdr)

\* GET /api/refresh-columns (server.js lines 115-158)
RefreshColumns == \E hdr \in HeaderValues : Handle("/api/refresh-columns", hdr)

\* GET /api/issues (server.js lines 161-179)
Issues == \E hdr \in HeaderValues : Handle("/api/issues", hdr)

DirectEntries == {"tryBearerTokenRequest", "tryPATTokenRequest", "tryBasicAuthRequest"}

StrategyOf(entry) ==
  CASE entry = "tryBearerTokenRequest" -> Bearer
    [] entry = "tryPATTokenRequest" -> PAT
    [] OTHER -> Basic

\* what the strategy in progress does with the transport's answer
StepOf(strategy, vi, o) ==
  CASE strategy = Bearer -> tryBearerTokenRequest(o)
    [] strategy = PAT -> tryPATTokenRequest(vi, o)
    [] OTHER -> tryBasicAuthRequest(vi, config.username, o)

\* the tracker (or the network) answers the request in flight; the code
\* resumes after its await and runs to the next await or to the end;
\* loop.answer keeps the answer that settled the strategy
TransportAnswers ==
  /\ pc = "await"
  /\ \E o \in Outcomes :
       LET strategy == loop.authMethods[loop.mi]
           step == StepOf(strategy, loop.vi, o)
           after == loopAfter(step, loop.mi, loop.authMethods)
           post(s, v) == PostOf(s, v, config, loop.token, loop.fields)
           flight(s, v) == <<[strategy |-> s, variant |-> v]>>
       IN IF step.k = "next"
          THEN /\ loop' = [loop EXCEPT !.vi = @ + 1]
               /\ posts' = Append(posts, post(strategy, loop.vi + 1))
               /\ inflight' = flight(strategy, loop.vi + 1)
               /\ UNCHANGED <<pc, result, res>>
          ELSE IF call.entry \in DirectEntries
          THEN /\ loop' = [loop EXCEPT !.answer = o, !.search = step]
               /\ posts' = posts
               /\ inflight' = <<>>
               /\ pc' = "done"
               /\ UNCHANGED <<result, res>>
          ELSE IF after = "continue"
          THEN /\ loop' = [loop EXCEPT !.mi = @ + 1, !.vi = 1, !.answer = o,
                             !.errors = Append(@, ErrorDetails(strategy, step.error))]
               /\ posts' = Append(posts, post(loop.authMethods[loop.mi + 1], 1))
               /\ inflight' = flight(loop.authMethods[loop.mi + 1], 1)
               /\ UNCHANGED <<pc, result, res>>
          ELSE LET errors == IF step.k = "throw"
                             THEN Append(loop.errors, ErrorDetails(strategy, step.error))
                             ELSE loop.errors
                   search == IF after = "return"
                             THEN StepReturn(step.response)
                             ELSE StepThrow(allFailed(errors))
                   r == ClientSettle(ClientMethod(call.entry), search, config)
               IN /\ loop' = [loop EXCEPT !.errors = errors, !.answer = o,
                                            !.search = search]
                  /\ posts' = posts
                  /\ inflight' = <<>>
                  /\ result' = r
                  /\ res' = HandlerSettle(call.entry, r, config)
                  /\ pc' = "done"
  /\ UNCHANGED <<config, call, proj, fv, wiki>>

\* a caller invokes one strategy method of the client directly
CallStrategy(entry) ==
  /\ pc = "idle"
  /\ \E token \in {Null, Str(<<"user-token">>)} :
       LET s == StrategyOf(entry)
           p == PostOf(s, 1, config, token, << <<"key">> >>)
       IN /\ call' = [entry |-> entry, userToken |-> token]
          /\ loop' = [NoLoop EXCEPT !.authMethods = <<s>>, !.mi = 1, !.vi = 1,
                                    !.token = token, !.fields = << <<"key">> >>]
          /\ posts' = <<p>>
          /\ inflight' = <<[strategy |-> s, variant |-> 1]>>
          /\ pc' = "await"
          /\ result' = NoResult
          /\ res' = NoRes
  /\ UNCHANGED <<config, proj, fv, wiki>>

CallBearer == CallStrategy("tryBearerTokenRequest")
CallPAT == CallStrategy("tryPATTokenRequest")
CallBasic == CallStrategy("tryBasicAuthRequest")

Init ==
  /\ config \in Configs
  /\ pc = "idle"
  /\ call = NoCall
  /\ loop = NoLoop
  /\ posts = <<>>
  /\ inflight = <<>>
  /\ result = NoResult
  /\ res = NoRes
  /\ proj = NoProj
  /\ fv = NoFv
  /\ wiki = NoWiki

Next == FetchAllData \/ RefreshColumns \/ Issues \/ TransportAnswers

Spec == Init /\ [][Next]_vars

\* the three strategy methods called on their own
StrategyConfigs ==
  [baseUrl : {<<"https://jira.example.com">>},
   pat : {Str(<<"cfg-pat">>)},
   username : {<<>>, <<"alice">>, <<"alice", "@", "corp.com">>},
   defaultColumns : {<<>>},
   allPossibleFields : {<<>>},
   nodeEnv : {"production"}]

InitStrategy ==
  /\ config \in StrategyConfigs
  /\ pc = "idle"
  /\ call = NoCall
  /\ loop = NoLoop
  /\ posts = <<>>
  /\ inflight = <<>>
  /\ result = NoResult
  /\ res = NoRes
  /\ proj = NoProj
  /\ fv = NoFv
  /\ wiki = NoWiki

NextStrategy == CallBearer \/ CallPAT \/ CallBasic \/ TransportAnswers

SpecStrategy == InitStrategy /\ [][NextStrategy]_vars

---------------------------------------------------------------------------
(* Field projector on its own: formatIssues applied to every input *)

InitFormat ==
  /\ proj \in [columns : ColumnLists, issues : IssueLists, baseUrl : BaseUrls,
               out : {NoOut}]
  /\ config \in StrategyConfigs
  /\ config.username = <<>>
  /\ pc = "idle"
  /\ call = NoCall
  /\ loop = NoLoop
  /\ posts = <<>>
  /\ inflight = <<>>
  /\ result = NoResult
  /\ res = NoRes
  /\ fv = NoFv
  /\ wiki = NoWiki

CallFormatIssues ==
  /\ proj.out = NoOut
  /\ proj' = [proj EXCEPT !.out = formatIssues(proj.issues, proj.columns, proj.baseUrl)]
  /\ UNCHANGED <<config, pc, call, loop, posts, inflight, result, res, fv, wiki>>

NextFormat == CallFormatIssues

SpecFormat == InitFormat /\ [][NextFormat]_vars

---------------------------------------------------------------------------
(* The client's functions on their own: each applied to every input *)

\* dotted paths given to getFieldValue
FieldPaths ==
  { <<>>, <<"key">>, <<"summary">>, <<"missing">>,
    <<"status", ".", "name">>, <<"status", ".", "missing">>,
    <<"missing", ".", "name">>, <<"summary", ".", "name">>,
    <<"status", ".", "name", ".", "x">>, <<"labels", ".", "length">> }

\* values a tracker field can hold
FieldValues ==
  { Null, Undefined, Str(<<>>), Str(<<"Open">>), Str(<<"http", "://wiki/pages/1">>),
    Str(<<"2024-01-15", "T10:00:00.000+0000">>), Num(0), Num(7),
    Arr(<<>>), Arr(<<Str(<<"a">>), Str(<<"b">>)>>),
    Arr(<<Obj([name |-> Str(<<"v1">>)]), Obj([id |-> Num(2)])>>),
    Arr(<<Null>>),
    Arr(<<Str(<<"a">>), Obj([name |-> Str(<<"v1">>)])>>),
    Arr(<<Obj([name |-> Str(<<"v1">>)]), Str(<<"a">>), Num(7)>>),
    Obj(<<>>),
    Obj([name |-> Str(<<"Open">>)]),
    Obj([name |-> Str(<<"Open">>), displayName |-> Str(<<"Opened">>)]),
    Obj([url |-> Str(<<"http", "://wiki/u">>), value |-> Str(<<"http", "://wiki/v">>),
         href |-> Str(<<"http", "://wiki/h">>)]),
    Obj([value |-> Str(<<"http", "://wiki/v">>), href |-> Str(<<"http", "://wiki/h">>)]),
    Obj([url |-> Str(<<>>), href |-> Str(<<"http", "://wiki/h">>)]) }

FieldTypes == {"link", "confluence", "badge", "date", "datetime", "text", "number", ""}

\* values given to checkLabel as `labels`
LabelValues ==
  { Null, Undefined, Str(<<>>), Str(<<"Foo", ",", "bar">>), Str(<<"bar">>), Num(7),
    Obj([name |-> Str(<<"foo">>)]),
    Arr(<<>>), Arr(<<Str(<<"Foo">>), Str(<<"bar">>)>>), Arr(<<Str(<<"bar">>)>>),
    Arr(<<Obj([name |-> Str(<<"FOO">>)])>>), Arr(<<Obj([id |-> Num(1)]), Str(<<"foo">>)>>),
    Arr(<<Str(<<"foo">>), Null>>), Arr(<<Null, Str(<<"foo">>)>>),
    Arr(<<Num(3)>>), Arr(<<Obj([name |-> Num(5)])>>) }

LabelsToCheck == { <<"foo">>, <<"FOO">>, <<"bar">>, <<"zzz">> }

\* longest page, in blocks, given to extractSummary
MaxBlocks == 3

\* pieces of page markup, by name
BlockNames == {"H2", "H3", "HE", "H4", "T1", "D2", "B", "P", "X", "L"}

BlockHtml(name) ==
  CASE name = "H2" -> <<"<h2>", "Summary", "</h2>", "<p>", "from", "&nbsp;", "heading", "</p>">>
    [] name = "H3" -> <<"<h3>", "SUMMARY", "</h3>", "third", "\n", "<br/>", "level", "<br/>">>
    [] name = "HE" -> <<"<h2 id=\"s\">", "Summary", "</h2>">>
    [] name = "H4" -> <<"<h4>", "Summary", "</h4>", "fourth", "<br/>">>
    [] name = "T1" -> <<"<h1>", "Title", "</h1>", "intro", "<br/>">>
    [] name = "D2" -> <<"<h2>", "Details", "</h2>", "<p>", "detail", "</p>">>
    [] name = "B" -> <<"<p>", "<strong>", "Summary:", "</strong>", "from", " ", "bold", "</p>">>
    [] name = "P" -> <<"<p class=\"lead\">", "first", " ", "&amp;", " ", "para", "</p>">>
    [] name = "X" -> <<"bare", " ", "&lt;", "text", "&gt;", "\n">>
    [] OTHER -> <<"lorem600", " ">>

\* the page made of the named blocks, in order
RECURSIVE Page(_)
Page(names) ==
  IF names = <<>> THEN <<>> ELSE BlockHtml(Head(names)) \o Page(Tail(names))

FunctionCalls ==
  [fn : {"getFieldValue"}, value : IssueValues \cup {Undefined, Num(5)},
   text : FieldPaths, out : {NoOut}]
  \cup [fn : {"formatFieldValue"}, value : FieldValues,
        text : { <<type>> : type \in FieldTypes }, out : {NoOut}]
  \cup [fn : {"checkLabel"}, value : LabelValues, text : LabelsToCheck, out : {NoOut}]
  \cup { [fn |-> "extractSummary", value |-> Str(Page(names)), text |-> names,
          out |-> NoOut] : names \in SeqsUpTo(BlockNames, MaxBlocks) }
  \cup [fn : {"extractSummary"}, value : {Null, Undefined, Num(5), Obj(<<>>)},
        text : {<<>>}, out : {NoOut}]

InitFunctions ==
  /\ fv \in FunctionCalls
  /\ config \in StrategyConfigs
  /\ config.username = <<>>
  /\ pc = "idle"
  /\ call = NoCall
  /\ loop = NoLoop
  /\ posts = <<>>
  /\ inflight = <<>>
  /\ result = NoResult
  /\ res = NoRes
  /\ proj = NoProj
  /\ wiki = NoWiki

\* the function named in fv returns (or throws): fv.out
Returns(fn, out) ==
  /\ fv.fn = fn
  /\ fv.out = NoOut
  /\ fv' = [fv EXCEPT !.out = out]
  /\ UNCHANGED <<config, pc, call, loop, posts, inflight, result, res, proj, wiki>>

CallGetFieldValue == Returns("getFieldValue", getFieldValue(fv.value, fv.text))

CallFormatFieldValue ==
  Returns("formatFieldValue", formatFieldValue(fv.value, fv.text[1]))

CallCheckLabel == Returns("checkLabel", checkLabel(fv.value, fv.text))

CallExtractSummary == Returns("extractSummary", extractSummary(fv.value))

NextFunctions ==
  CallGetFieldValue \/ CallFormatFieldValue \/ CallCheckLabel \/ CallExtractSummary

SpecFunctions == InitFunctions /\ [][NextFunctions]_vars

---------------------------------------------------------------------------
(* Wiki summary fetcher: one summary, and a batch of summaries *)

PageUrl == <<"http", "://wiki.example.com/spaces/ENG/", "pages/", "123456789", "/Title">>
ViewUrl == <<"http", "://wiki.example.com/", "pages/", "viewpage.action?", "pageId=", "42">>
TinyUrl == <<"http", "://wiki.example.com/", "display/ENG/Title">>

\* what a caller can pass to getSummary as confluenceUrl
SummaryInputs ==
  { Null, Undefined, Str(<<>>), Num(7),
    Str(PageUrl), Str(ViewUrl), Str(TinyUrl),
    Str(<<"ftp", "://wiki.example.com/", "pages/", "42">>),
    Str(<<"http", "://wiki.example.com/", "pages/", "42", "7", "?", "pageId=", "123456789">>),
    Str(<<"http", "://wiki.example.com/", "pageId=", "/x">>),
    Obj([url |-> Str(PageUrl)]), Obj([value |-> Str(ViewUrl)]), Obj([href |-> Str(PageUrl)]),
    Obj([url |-> Str(<<>>), value |-> Str(ViewUrl), href |-> Str(PageUrl)]),
    Obj([url |-> Str(<<"wiki/", "pages/", "42">>)]),
    Obj([url |-> Obj([url |-> Num(5)])]),
    Obj(<<>>), Arr(<<Str(PageUrl)>>) }

\* page bodies the wiki can serve
StoredPages ==
  { Str(Page(<<"T1", "H2">>)), Str(Page(<<"P">>)), Str(<<>>), Num(5) }

\* what the GET of fetchPageContent can come back with
WikiOutcomes ==
  { WikiResponse(200, Obj([title |-> Str(<<"Title">>),
                           body |-> Obj([storage |-> Obj([value |-> b])]),
                           version |-> Obj([number |-> Num(3)])])) : b \in StoredPages }
  \cup { WikiResponse(200, Obj([title |-> Str(<<"Title">>)])),
         WikiResponse(200, Str(<<"<html>", "login", "</html>">>)),
         WikiResponse(200, Null), WikiResponse(204, Str(<<>>)),
         WikiResponse(401, Obj([message |-> Str(<<"Unauthorized">>)])),
         WikiResponse(404, Obj(<<>>)), WikiResponse(500, Str(<<"oops">>)),
         WikiRejection(<<"timeout of 10000ms exceeded">>),
         WikiRejection(<<"getaddrinfo ENOTFOUND wiki">>),
         WikiRejection(<<>>) }

\* longest list given to getSummaries
MaxUrls == 3

\* clock step and horizon of a batch, in ms
TickMs == 50
MaxNow == 300

\* list entries given to getSummaries
BatchInputs == { Str(PageUrl), Str(ViewUrl), Str(TinyUrl) }

\* outcomes of a GET during a batch: found, or not
BatchOutcomes ==
  { WikiResponse(200, Obj([title |-> Str(<<"Title">>),
                           body |-> Obj([storage |-> Obj([value |-> Str(Page(<<"P">>))])])])),
    WikiResponse(404, Obj(<<>>)) }

WikiTokens == {Null, Str(<<"wiki-token">>)}

\* one invocation of getSummary: waiting for its timer, for its GET, or
\* settled
SummaryCall(st, at, start) ==
  [st |-> st, at |-> at,
   url |-> IF st = "timer" THEN Undefined ELSE start.url,
   answer |-> WikiRejection(<<"none">>),
   result |-> IF st = "settled" THEN start.result ELSE NoOut]

\* getSummary is entered for list position i at time now
EnterSummary(w, i) ==
  LET start == getSummaryStart(w.urls[i], w.userToken, w.token)
  IN [w EXCEPT
        !.calls[i] = SummaryCall(IF start.k = "get" THEN "await" ELSE "settled",
                                 w.now, start),
        !.gets = IF start.k = "get"
                 THEN Append(@, [i |-> i, apiUrl |-> start.apiUrl,
                                 authorization |-> start.authorization])
                 ELSE @,
        !.order = IF start.k = "get" THEN @ ELSE Append(@, i)]

\* what the caller of getSummary / getSummaries has got once promises have
\* settled: Promise.all rejects with the first rejection and resolves when
\* all have resolved (lines 241-247)
Deliver(w) ==
  LET results == [i \in 1..Len(w.calls) |-> w.calls[i].result]
      rejected == { i \in 1..Len(w.calls) :
                      w.calls[i].st = "settled" /\ results[i].settled = "rejected" }
      all == \A i \in 1..Len(w.calls) : w.calls[i].st = "settled"
  IN [w EXCEPT !.returned =
        IF @ # NoOut THEN @
        ELSE IF w.fn = "getSummary"
        THEN (IF all THEN results[1] ELSE NoOut)
        ELSE IF rejected # {} THEN results[Leftmost(rejected)]
        ELSE IF all THEN collectResults(w.urls, results)
        ELSE NoOut]

WikiUnchanged == UNCHANGED <<config, pc, call, loop, posts, inflight, result, res, proj, fv>>

\* confluenceClient.getSummary(url, userToken) is called
CallGetSummary ==
  /\ wiki.fn = ""
  /\ \E input \in SummaryInputs, userToken \in WikiTokens, token \in WikiTokens :
       wiki' = Deliver(EnterSummary(
                 [NoWiki EXCEPT !.fn = "getSummary", !.urls = <<input>>,
                                !.userToken = userToken, !.token = token,
                                !.calls = <<SummaryCall("timer", 0, NoOut)>>], 1))
  /\ WikiUnchanged

\* confluenceClient.getSummaries(urls, userToken) is called: every callback
\* of map runs up to the await of its timer
CallGetSummaries ==
  /\ wiki.fn = ""
  /\ \E urls \in SeqsUpTo(BatchInputs, MaxUrls), userToken \in WikiTokens :
       wiki' = Deliver(
                 [NoWiki EXCEPT !.fn = "getSummaries", !.urls = urls,
                                !.userToken = userToken, !.token = Null,
                                !.calls = [i \in 1..Len(urls) |->
                                             SummaryCall("timer", 0, NoOut)]])
  /\ WikiUnchanged

\* time passes; the clock is followed for as long as a timer is pending
Tick ==
  /\ wiki.fn = "getSummaries"
  /\ \E i \in 1..Len(wiki.calls) : wiki.calls[i].st = "timer"
  /\ wiki.now + TickMs <= MaxNow
  /\ wiki' = [wiki EXCEPT !.now = @ + TickMs]
  /\ WikiUnchanged

\* the event loop runs the expired timer that is due first (the earlier one
\* set when two are due together): getSummary starts for that list position
TimerFires ==
  /\ wiki.fn = "getSummaries"
  /\ \E i \in 1..Len(wiki.calls) :
       /\ wiki.calls[i].st = "timer"
       /\ wiki.now >= delay(i - 1)
       /\ \A j \in 1..Len(wiki.calls) :
            wiki.calls[j].st = "timer" =>
              \/ delay(j - 1) > delay(i - 1)
              \/ delay(j - 1) = delay(i - 1) /\ j >= i
       /\ wiki' = Deliver(EnterSummary(wiki, i))
  /\ WikiUnchanged

\* the wiki (or the network) answers a GET in flight
WikiAnswers ==
  /\ \E i \in 1..Len(wiki.calls) :
       /\ wiki.calls[i].st = "await"
       /\ \E o \in (IF wiki.fn = "getSummary" THEN WikiOutcomes ELSE BatchOutcomes) :
            wiki' = Deliver([wiki EXCEPT !.calls[i].st = "settled",
                                         !.calls[i].answer = o,
                                         !.calls[i].result = getSummarySettle(o),
                                         !.order = Append(@, i)])
  /\ WikiUnchanged

InitWiki ==
  /\ wiki = NoWiki
  /\ fv = NoFv
  /\ config \in StrategyConfigs
  /\ config.username = <<>>
  /\ pc = "idle"
  /\ call = NoCall
  /\ loop = NoLoop
  /\ posts = <<>>
  /\ inflight = <<>>
  /\ result = NoResult
  /\ res = NoRes
  /\ proj = NoProj

NextSummary == CallGetSummary \/ WikiAnswers

SpecSummary == InitWiki /\ [][NextSummary]_vars

NextBatch == CallGetSummaries \/ Tick \/ TimerFires \/ WikiAnswers

SpecBatch == InitWiki /\ [][NextBatch]_vars

---------------------------------------------------------------------------
(* The server process from its start: construction of the tracker client, *)
(* then every endpoint of the HTTP facade                                 *)

\* faulty variant: only the token is required
validateConfigurationTokenOnly(baseUrl, pat) ==
  IF ~Truthy(pat) THEN Throw(<<"JIRA API token is required">>) ELSE Undefined

\* validateConfiguration (README.md lines 239-249) on this.baseUrl and
\* this.pat: an exception, or a normal return
validateConfiguration(baseUrl, pat) ==
  IF ~Truthy(baseUrl) THEN Throw(<<"JIRA base URL is required">>)
  ELSE IF ~Truthy(pat) THEN Throw(<<"JIRA API token is required">>)
  ELSE Undefined

\* what the configuration files can hold when the process starts: the base
\* URL or the token may be missing (an absent and an empty base URL are both
\* the empty string here)
BootConfigs ==
  [baseUrl : BaseUrls \cup {<<>>},
   pat : {Undefined, Str(<<>>), Str(<<"cfg-pat">>)},
   username : {<<>>},
   defaultColumns : Schemas,
   allPossibleFields : {<< <<"key">>, <<"summary">>, <<"status">>, <<"labels">> >>},
   nodeEnv : {"development", "production"}]

\* server.js lines 37-50 and 425: new JiraClient() and, unless it throws,
\* app.listen; when it throws, process.exit(1)
Startup ==
  /\ pc = "boot"
  /\ pc' = IF IsThrow(validateConfiguration(Str(config.baseUrl), config.pat))
           THEN "exited" ELSE "idle"
  /\ UNCHANGED <<config, call, loop, posts, inflight, result, res, proj, fv, wiki>>

\* issue keys of GET /api/issue/:key (a route parameter is never empty)
IssueKeys == { <<"A-1">>, <<"NOPE-9">> }

\* the GET of getIssueDetails: README.md lines 669-678
IssueGet(issueKey, cfg) ==
  [strategy |-> "getIssueDetails", variant |-> 1,
   url |-> CleanBaseUrl(cfg.baseUrl) \o <<"/rest/api/2/issue/">> \o issueKey,
   header |-> <<"Authorization", <<"Bearer ">> \o CleanToken(cfg.pat.s)>>,
   fields |-> <<>>, timeout |-> 0]

IssueStatuses == {200, 401, 403, 404, 500}

\* what the GET of getIssueDetails can come back with
IssueOutcomes ==
  { [kind |-> "response", error |-> Error(<<>>),
     response |-> [status |-> st, statusText |-> StatusText(st),
                   contentType |-> <<"application/json">>, data |-> d]] :
      st \in IssueStatuses,
      d \in { Obj([key |-> Str(<<"A-1">>)]), Obj(<<>>),
              Obj([errorMessages |-> Arr(<<Str(<<"Issue Does Not Exist">>)>>)]),
              Obj([message |-> Str(<<"No access">>)]) } }
    \cup
  { [kind |-> "reject", response |-> NoResponse, error |-> e] : e \in Rejections }

\* axios with its default validateStatus: an answer outside 2xx is a
\* rejection whose error carries the response
AxiosDefault(o) ==
  IF o.kind = "response" /\ ~(200 <= o.response.status /\ o.response.status < 300)
  THEN [kind |-> "reject", response |-> NoResponse,
        error |-> [message |-> <<"Request failed with status code ",
                                 ToString(o.response.status)>>,
                   code |-> "ERR_BAD_RESPONSE", response |-> o.response]]
  ELSE o

\* getIssueDetails after its await: README.md lines 680-684
getIssueDetailsSettle(o, cfg) ==
  LET r == AxiosDefault(o)
  IN IF r.kind = "reject"
     THEN [k |-> "throw", data |-> Undefined,
           error |-> Error(<<"Failed to fetch issue details: ">>
                             \o extractErrorMessage(r.error, cfg.baseUrl))]
     ELSE [k |-> "return", data |-> r.response.data, error |-> Error(<<>>)]

\* the catch block of the plain handlers: status 500, success false and the
\* message (server.js lines 190-196 and alike)
PlainFailure(status, message) ==
  [NoRes EXCEPT !.status = status, !.error = message]

\* GET /api/issue/:key once getIssueDetails has settled: server.js lines
\* 184-196
IssueReply(clientResult) ==
  IF clientResult.k = "throw" THEN PlainFailure(500, clientResult.error.message)
  ELSE [NoRes EXCEPT !.status = 200, !.success = TRUE, !.data = clientResult.data]

\* GET /api/issue/:key (server.js lines 181-197) up to the await of
\* getIssueDetails
IssueDetails ==
  /\ pc = "idle"
  /\ \E issueKey \in IssueKeys :
       /\ call' = [entry |-> "/api/issue/:key", userToken |-> Undefined]
       /\ posts' = <<IssueGet(issueKey, config)>>
       /\ inflight' = <<[strategy |-> "getIssueDetails", variant |-> 1]>>
  /\ pc' = "awaitGet"
  /\ loop' = NoLoop
  /\ result' = NoResult
  /\ res' = NoRes
  /\ UNCHANGED <<config, proj, fv, wiki>>

\* the tracker (or the network) answers the GET of getIssueDetails
IssueAnswers ==
  /\ pc = "awaitGet"
  /\ call.entry = "/api/issue/:key"
  /\ \E o \in IssueOutcomes :
       LET r == getIssueDetailsSettle(o, config)
       IN /\ loop' = [loop EXCEPT !.answer = o]
          /\ result' = r
          /\ res' = IssueReply(r)
  /\ inflight' = <<>>
  /\ pc' = "done"
  /\ UNCHANGED <<config, call, posts, proj, fv, wiki>>

\* what the configuration store answers to a call of its methods (the store
\* is outside the sources): a value, a refusal, or an exception
StoreOutcomes == {"true", "false", "throw"}

StoreError == Error(<<"ENOENT: no such file or directory">>)

\* an endpoint that answers without a request to the tracker or the wiki
Answer(entry, reply) ==
  /\ pc = "idle"
  /\ call' = [entry |-> entry, userToken |-> Undefined]
  /\ res' = reply
  /\ pc' = "done"
  /\ loop' = NoLoop
  /\ result' = NoResult
  /\ UNCHANGED <<config, posts, inflight, proj, fv, wiki>>

\* getBackendConfig: README.md lines 826-831
getBackendConfig(cfg) ==
  Obj([defaultColumns |-> cfg.defaultColumns,
       allPossibleFields |-> cfg.allPossibleFields])

\* GET /api/table-config: server.js lines 199-213
TableConfig ==
  \E store \in StoreOutcomes \ {"false"} :
    Answer("/api/table-config",
           IF store = "throw" THEN PlainFailure(500, StoreError.message)
           ELSE [NoRes EXCEPT !.status = 200, !.success = TRUE,
                              !.data = Obj([columns |-> config.defaultColumns])])

\* GET /api/backend-config: server.js lines 215-229
BackendConfig ==
  Answer("/api/backend-config",
         [NoRes EXCEPT !.status = 200, !.success = TRUE,
                       !.data = getBackendConfig(config)])

\* what a request body can hold as userColumns
UserColumnBodies ==
  { Undefined, Str(<<"key">>), Arr(<<>>), Arr(<<Str(<<"key">>), Str(<<"status">>)>>) }

\* POST /api/save-column-config: server.js lines 231-262 and saveUserConfig
\* (README.md lines 811-824)
SaveColumnConfigReply(userColumns, store) ==
  IF userColumns.t # "array"
  THEN PlainFailure(400, <<"userColumns must be an array">>)
  ELSE IF store = "throw" THEN PlainFailure(500, StoreError.message)
  ELSE IF store = "false"
  THEN PlainFailure(500, <<"Failed to save column configuration">>)
  ELSE [NoRes EXCEPT !.status = 200, !.success = TRUE,
                     !.message = <<"Column configuration saved successfully">>]

SaveColumnConfig ==
  \E userColumns \in UserColumnBodies, store \in StoreOutcomes :
    Answer("/api/save-column-config", SaveColumnConfigReply(userColumns, store))

\* GET /api/health: server.js lines 408-414
Health ==
  Answer("/api/health",
         [NoRes EXCEPT !.status = 200, !.success = TRUE,
                       !.message = <<"Server is running">>])

\* the error handling middleware (server.js lines 416-423): an error that no
\* handler caught, such as a request body that is not JSON
ErrorMiddleware ==
  Answer("error middleware", PlainFailure(500, <<"Internal server error">>))

\* what a request body can hold as token
TokenBodies == { Undefined, Str(<<>>), Str(<<" ", "user-token", " ">>) }

\* the GET of POST /api/test-token: server.js lines 281-294
TokenGet(token, cfg) ==
  [strategy |-> "test-token", variant |-> 1,
   url |-> CleanBaseUrl(IF cfg.baseUrl # <<>> THEN cfg.baseUrl
                        ELSE <<"https://jira.nutanix.com">>)
             \o <<"/rest/pat/latest/tokens">>,
   header |-> <<"Authorization", <<"Bearer ">> \o TrimEnd(TrimStart(token))>>,
   fields |-> <<>>, timeout |-> 10000]

\* what the GET of /api/test-token can come back with
TokenOutcomes ==
  { [kind |-> "response", error |-> Error(<<>>),
     response |-> [status |-> st, statusText |-> StatusText(st),
                   contentType |-> <<"application/json">>, data |-> d]] :
      st \in {200, 401, 403, 500},
      d \in { Arr(<<>>), Obj([message |-> Str(<<"No access">>)]) } }
    \cup
  { [kind |-> "reject", response |-> NoResponse, error |-> e] : e \in Rejections }

\* POST /api/test-token after its await: server.js lines 296-332
TestTokenReply(o) ==
  LET r == AxiosDefault(o)
      error == IF r.kind = "reject" THEN r.error
               ELSE Error(<<"Invalid response from token endpoint">>)
  IN IF r.kind = "response" /\ r.response.status = 200
        /\ r.response.data.t = "array"
     THEN [NoRes EXCEPT !.status = 200, !.success = TRUE,
                        !.message = <<"Token is valid">>]
     ELSE IF error.response # NoResponse /\ error.response.status \in {401, 403}
     THEN PlainFailure(401, <<"Invalid token. Please check your Bearer token (PAT).">>)
     ELSE PlainFailure(500, IF error.message # <<>> THEN error.message
                            ELSE <<"Failed to test token">>)

\* POST /api/test-token (server.js lines 264-333) up to its await, or to
\* its refusal of a body without a token
TestToken ==
  /\ pc = "idle"
  /\ \E token \in TokenBodies :
       /\ call' = [entry |-> "/api/test-token", userToken |-> token]
       /\ IF ~Truthy(token)
          THEN /\ res' = PlainFailure(400, <<"Token is required">>)
               /\ pc' = "done"
               /\ UNCHANGED <<posts, inflight>>
          ELSE /\ res' = NoRes
               /\ pc' = "awaitToken"
               /\ posts' = <<TokenGet(token.s, config)>>
               /\ inflight' = <<[strategy |-> "test-token", variant |-> 1]>>
  /\ loop' = NoLoop
  /\ result' = NoResult
  /\ UNCHANGED <<config, proj, fv, wiki>>

\* the tracker (or the network) answers the GET of /api/test-token
TokenAnswers ==
  /\ pc = "awaitToken"
  /\ \E o \in TokenOutcomes :
       /\ loop' = [loop EXCEPT !.answer = o]
       /\ res' = TestTokenReply(o)
  /\ inflight' = <<>>
  /\ pc' = "done"
  /\ UNCHANGED <<config, call, posts, result, proj, fv, wiki>>

\* the url query parameter of GET /api/confluence/summary
SummaryQueries == { Undefined, Str(<<>>), Str(PageUrl), Str(TinyUrl) }

\* the urls of the body of POST /api/confluence/summaries
SummariesBodies ==
  { Undefined, Str(PageUrl), Arr(<<>>), Arr(<<Str(PageUrl)>>),
    Arr(<<Str(PageUrl), Str(ViewUrl)>>) }

\* a wiki endpoint refuses its request: server.js lines 342-347, 379-384
WikiRefusal(entry) ==
  PlainFailure(400, IF entry = "/api/confluence/summary"
                    THEN <<"Confluence URL is required">>
                    ELSE <<"URLs array is required">>)

\* a wiki endpoint once its client call has settled: server.js lines
\* 351-369 and 388-405
WikiReply(entry, returned) ==
  IF "settled" \in DOMAIN returned /\ returned.settled = "rejected"
  THEN PlainFailure(500,
         IF Truthy(returned.error) THEN ToStr(returned.error)
         ELSE IF entry = "/api/confluence/summary"
         THEN <<"Failed to fetch Confluence summary">>
         ELSE <<"Failed to fetch Confluence summaries">>)
  ELSE IF entry = "/api/confluence/summary"
  THEN [NoRes EXCEPT !.status = 200, !.success = returned.success,
                     !.error = IF returned.error.t = "string"
                               THEN returned.error.s ELSE <<>>,
                     !.data = returned.summary]
  ELSE [NoRes EXCEPT !.status = 200, !.success = TRUE, !.data = returned]

\* a wiki endpoint up to the await of its client call, or to its refusal
WikiEndpoint(entry, userToken, refused, w) ==
  /\ pc = "idle"
  /\ call' = [entry |-> entry, userToken |-> userToken]
  /\ IF refused
     THEN /\ res' = WikiRefusal(entry)
          /\ pc' = "done"
          /\ wiki' = wiki
     ELSE /\ res' = NoRes
          /\ pc' = "awaitWiki"
          /\ wiki' = w
  /\ loop' = NoLoop
  /\ result' = NoResult
  /\ UNCHANGED <<config, posts, inflight, proj, fv>>

\* GET /api/confluence/summary: server.js lines 336-370
ConfluenceSummary ==
  \E url \in SummaryQueries, userToken \in WikiTokens :
    WikiEndpoint("/api/confluence/summary", userToken, ~Truthy(url),
      Deliver(EnterSummary(
        [NoWiki EXCEPT !.fn = "getSummary", !.urls = <<url>>,
                       !.userToken = userToken, !.token = Null,
                       !.calls = <<SummaryCall("timer", 0, NoOut)>>], 1)))

\* POST /api/confluence/summaries: server.js lines 373-406
ConfluenceSummaries ==
  \E urls \in SummariesBodies, userToken \in WikiTokens :
    WikiEndpoint("/api/confluence/summaries", userToken,
      ~Truthy(urls) \/ urls.t # "array",
      IF urls.t # "array" THEN wiki
      ELSE Deliver(
             [NoWiki EXCEPT !.fn = "getSummaries", !.urls = urls.a,
                            !.userToken = userToken, !.token = Null,
                            !.calls = [i \in 1..Len(urls.a) |->
                                         SummaryCall("timer", 0, NoOut)]]))

\* the client call of a wiki endpoint has settled and the handler answers
WikiEndpointAnswers ==
  /\ pc = "awaitWiki"
  /\ wiki.returned # NoOut
  /\ res' = WikiReply(call.entry, wiki.returned)
  /\ pc' = "done"
  /\ UNCHANGED <<config, call, loop, posts, inflight, result, proj, fv, wiki>>

InitServer ==
  /\ config \in BootConfigs
  /\ pc = "boot"
  /\ call = NoCall
  /\ loop = NoLoop
  /\ posts = <<>>
  /\ inflight = <<>>
  /\ result = NoResult
  /\ res = NoRes
  /\ proj = NoProj
  /\ fv = NoFv
  /\ wiki = NoWiki

NextServer ==
  \/ Startup
  \/ FetchAllData \/ RefreshColumns \/ Issues \/ TransportAnswers
  \/ IssueDetails \/ IssueAnswers
  \/ TableConfig \/ BackendConfig \/ SaveColumnConfig \/ Health \/ ErrorMiddleware
  \/ TestToken \/ TokenAnswers
  \/ ConfluenceSummary \/ ConfluenceSummaries
  \/ Tick \/ TimerFires \/ WikiAnswers \/ WikiEndpointAnswers

SpecServer == InitServer /\ [][NextServer]_vars

---------------------------------------------------------------------------
(* Properties of the search path: specification Spec *)

TokenEndpoints == {"/api/fetch-all-data", "/api/refresh-columns"}

\* a search (makeJiraRequest) has been started for the request at hand
SearchStarted == call.entry \in Endpoints /\ loop.mi >= 1

\* every strategy of the search has failed
SearchFailed == SearchStarted /\ pc = "done" /\ loop.search.k = "throw"

CallerToken == call.entry \in TokenEndpoints /\ Truthy(call.userToken)

ContextPrefix ==
  IF ClientMethod(call.entry) = "fetchAllData" THEN FetchPrefix ELSE RefreshPrefix

\* C1: a search made with a caller-supplied token attempts the bearer
\* strategy only: one POST to the search endpoint carrying that token, and
\* when it fails the search fails with no PAT-header or basic-auth request.
C1_BearerOnly ==
  (CallerToken /\ SearchStarted) =>
    /\ Len(posts) = 1
    /\ posts[1].strategy = Bearer
    /\ posts[1].url = SearchUrl(config.baseUrl)
    /\ posts[1].header = <<"Authorization", <<"Bearer ">> \o call.userToken.s>>
    /\ (pc = "done" /\ tryBearerTokenRequest(loop.answer).k = "throw"
          => /\ loop.search.k = "throw"
             /\ result.k = "throw"
             /\ ~res.success)

C1_Witness ==
  /\ CallerToken
  /\ SearchFailed
  /\ Len(posts) = 1
  /\ loop.answer.kind = "response"
  /\ loop.answer.response.status = 401

\* C2: a search made without a caller-supplied token whose earlier
\* strategies fail goes on to the PAT-header variants and then to the
\* basic-auth variants.
C2_FallbackWithoutToken ==
  (call.entry = "/api/issues" /\ SearchFailed) =>
    \E i, j \in 1..Len(posts) :
      i < j /\ posts[i].strategy = PAT /\ posts[j].strategy = Basic

\* C3: the strategies of a search run one at a time in list order, the loop
\* stops at the first success, and the caller gets either the complete
\* response of the strategy that succeeded or an error.
C3_Sequential ==
  /\ Len(inflight) <= 1
  /\ SearchStarted =>
       /\ \A i, j \in 1..Len(posts) :
            i < j => \E a, b \in 1..Len(loop.authMethods) :
                       /\ a <= b
                       /\ loop.authMethods[a] = posts[i].strategy
                       /\ loop.authMethods[b] = posts[j].strategy
       /\ pc = "await" =>
            /\ inflight = <<[strategy |-> posts[Len(posts)].strategy,
                             variant |-> posts[Len(posts)].variant]>>
            /\ result = NoResult
            /\ res = NoRes
       /\ pc = "done" =>
            /\ inflight = <<>>
            /\ IF StepOf(posts[Len(posts)].strategy, posts[Len(posts)].variant,
                         loop.answer).k = "return"
               THEN /\ loop.search = StepReturn(loop.answer.response)
                    /\ result.k = "return"
                    /\ result.data = loop.answer.response.data
               ELSE /\ loop.search.k = "throw"
                    /\ result.k = "throw"
                    /\ ~res.success
                    /\ res.issues = <<>>

C3_Witness ==
  /\ SearchStarted
  /\ pc = "done"
  /\ loop.search.k = "return"
  /\ res.success
  /\ res.issues # <<>>

\* C5 as stated: when every strategy fails, the error surfaced to the caller
\* is the context prefix followed by text containing the last strategy's
\* error message, whatever that message is.
C5_LastErrorAlways ==
  SearchFailed =>
    /\ StartsWith(res.error, ContextPrefix)
    /\ Includes(res.error, loop.errors[Len(loop.errors)].message)

\* C5 amended: when every strategy fails, the surfaced error is the context
\* prefix, then "All authentication methods failed. Last error: ", then the
\* last strategy's message ("Unknown error" when it is empty); except that a
\* last message containing "timeout" is replaced, the surfaced error being
\* the context prefix followed by the fixed timeout hint.
C5_LastErrorUnlessTimeout ==
  SearchFailed =>
    LET last == loop.errors[Len(loop.errors)].message
    IN /\ result.k = "throw"
       /\ res.error = result.error.message
       /\ IF Includes(last, <<"timeout">>)
          THEN res.error = ContextPrefix \o TimeoutHint
          ELSE res.error =
                 ContextPrefix \o <<"All authentication methods failed. Last error: ">>
                   \o (IF last = <<>> THEN <<"Unknown error">> ELSE last)

C5_Witness ==
  /\ SearchFailed
  /\ loop.errors[Len(loop.errors)].message = <<"Jira API error: ", "Field 'x' does not exist">>
  /\ Includes(res.error, <<"Jira API error: ", "Field 'x' does not exist">>)

\* C6: a search behind /api/fetch-all-data or /api/refresh-columns that fails
\* because the tracker answered 401 or 403 is answered with HTTP 401; only a
\* failure with no known upstream status is answered with 500.
C6_AuthFailureIs401 ==
  (call.entry \in TokenEndpoints /\ SearchFailed) =>
    /\ (loop.answer.kind = "response" /\ loop.answer.response.status \in {401, 403}
          => res.status = 401)
    /\ (res.status = 500 => loop.answer.kind = "reject")

\* C7: /api/refresh-columns and /api/fetch-all-data answer a request without
\* an x-jira-token header with HTTP 401, success false and the "No
\* authentication token provided..." error, and issue no request to the
\* tracker for it.
C7_NoTokenIs401 ==
  (call.entry \in TokenEndpoints /\ ~Truthy(call.userToken)) =>
    /\ pc = "done"
    /\ res.status = 401
    /\ ~res.success
    /\ StartsWith(res.error, <<"No authentication token provided.">>)
    /\ posts = <<>>
    /\ inflight = <<>>

C7_Witness ==
  /\ call.entry = "/api/refresh-columns"
  /\ call.userToken = Undefined
  /\ res.status = 401
  /\ posts = <<>>

---------------------------------------------------------------------------
(* Properties of the strategies: specification SpecStrategy *)

\* the failure conditions of an attempt: status other than 200, HTML content
\* type, or a string body with a DOCTYPE or <html marker
MustFail(o) ==
  /\ o.kind = "response"
  /\ \/ o.response.status # 200
     \/ Includes(o.response.contentType, <<"text/html">>)
     \/ IsHtmlString(o.response.data)

\* C4: for each of the three strategies, an attempt whose response has a
\* status other than 200, or an HTML content type, or a string body with a
\* DOCTYPE or <html marker, is a failed attempt: the strategy does not
\* return that response.
C4_HtmlOrNon200Fails ==
  (call.entry \in DirectEntries /\ pc = "done" /\ MustFail(loop.answer)) =>
    loop.search.k # "return"

---------------------------------------------------------------------------
(* Properties of the field projector: specification SpecFormat *)

\* a column that has both an outputKey and a sourceFieldPath
HasKeyAndPath(c) == ~c.isNull /\ c.key # "" /\ c.jiraField # <<>>

\* the first position in the schema of a column with output key k
FirstColumn(columns, k) ==
  CHOOSE i \in 1..Len(columns) :
    /\ HasKeyAndPath(columns[i]) /\ columns[i].key = k
    /\ \A j \in 1..(i - 1) : ~(HasKeyAndPath(columns[j]) /\ columns[j].key = k)

C9_NeverThrows ==
  (proj.out # NoOut /\ proj.issues.t = "array") =>
    /\ proj.out.t = "rows"
    /\ Len(proj.out.rows) = Len(proj.issues.a)

\* C10: in every row, key is the issue's identifier ("" when absent) and url
\* is the base URL without its trailing slash, then "/browse/", then that
\* key, whatever the column schema contains.
C10_KeyAndUrl ==
  proj.out.t = "rows" =>
    \A r \in 1..Len(proj.out.rows) :
      LET row == proj.out.rows[r]
          issue == proj.issues.a[r]
          id == IF issue.t = "object" /\ "key" \in DOMAIN issue.f
                THEN issue.f.key ELSE Str(<<>>)
          at(k) == row[CHOOSE i \in 1..Len(row) : row[i].k = k].v
      IN /\ at("key") = id
         /\ at("url") = Str(CleanBaseUrl(proj.baseUrl) \o <<"/browse/">> \o id.s)

---------------------------------------------------------------------------
(* Properties of the client's functions: specification SpecFunctions *)

Returned(fn) == fv.fn = fn /\ fv.out # NoOut

\* every segment of the path is there: each is a property of the value
\* reached so far, which is an object or an array
RECURSIVE Present(_, _)
Present(value, parts) ==
  \/ parts = <<>>
  \/ /\ value.t \in {"object", "array"}
     /\ Get(value, Head(parts)) # Undefined
     /\ Present(Get(value, Head(parts)), Tail(parts))

\* C11: getFieldValue never throws, and returns null whenever a segment of
\* the path is absent from the issue's field bag, the last segment included.
C11_AbsentIsNull ==
  (Returned("getFieldValue") /\ fv.text \notin {<<>>, <<"key">>}) =>
    /\ ~IsThrow(fv.out)
    /\ (fv.value.t # "object"
         \/ ~Present(Get(fv.value, <<"fields">>), SplitDots(fv.text)))
          => fv.out = Null

\* C12: formatFieldValue maps null and undefined to "Unknown" for the badge
\* type and to "" for every other type, and an empty array of type text to "".
C12_EmptyValues ==
  Returned("formatFieldValue") =>
    /\ fv.value \in {Null, Undefined}
         => fv.out = IF fv.text = <<"badge">> THEN Str(<<"Unknown">>) ELSE Str(<<>>)
    /\ (fv.value = Arr(<<>>) /\ fv.text = <<"text">>) => fv.out = Str(<<>>)

C12_Witness ==
  /\ Returned("formatFieldValue")
  /\ fv.value = Null
  /\ fv.text = <<"badge">>
  /\ fv.out = Str(<<"Unknown">>)

\* the first present of an object's url, value and href fields, else its
\* string form
FirstUrlField(value) ==
  IF Truthy(Get(value, <<"url">>)) THEN Get(value, <<"url">>)
  ELSE IF Truthy(Get(value, <<"value">>)) THEN Get(value, <<"value">>)
  ELSE IF Truthy(Get(value, <<"href">>)) THEN Get(value, <<"href">>)
  ELSE Str(ToStr(value))

\* C13: for the link and the confluence types alike, formatFieldValue
\* returns a string: a URL-shaped string unchanged, and for an object the
\* first present of url, value, href, else the value's string form.
C13_LinkAndConfluence ==
  (Returned("formatFieldValue") /\ fv.text \in {<<"link">>, <<"confluence">>}
     /\ fv.value \notin {Null, Undefined}) =>
    /\ fv.out.t = "string"
    /\ (fv.value.t = "string" /\ StartsWith(fv.value.s, <<"http">>)) => fv.out = fv.value
    /\ fv.value.t \in {"object", "array"} => fv.out = FirstUrlField(fv.value)

\* an entry of a labels array equals the label, ignoring case
LabelEntryMatches(entry, labelToCheck) ==
  \/ entry.t = "string" /\ ToLowerCase(entry.s) = ToLowerCase(labelToCheck)
  \/ /\ entry.t = "object"
     /\ Get(entry, <<"name">>).t = "string"
     /\ ToLowerCase(Get(entry, <<"name">>).s) = ToLowerCase(labelToCheck)

\* C14: checkLabel returns "Yes" or "No" and nothing else: "Yes" exactly
\* when labels is an array with an entry equal to the label ignoring case,
\* or a string containing it ignoring case; "No" otherwise, null included.
C14_YesOrNo ==
  Returned("checkLabel") =>
    LET yes == \/ /\ fv.value.t = "array"
                  /\ \E i \in 1..Len(fv.value.a) :
                       LabelEntryMatches(fv.value.a[i], fv.text)
               \/ /\ fv.value.t = "string"
                  /\ Includes(ToLowerCase(fv.value.s), ToLowerCase(fv.text))
    IN fv.out = IF yes THEN Str(<<"Yes">>) ELSE Str(<<"No">>)

\* what a reader sees of each block: its whole text, the text under its
\* heading, the text of its paragraph
BlockText(name) ==
  CASE name = "H2" -> <<"Summary", " ", "from", " ", "heading">>
    [] name = "H3" -> <<"SUMMARY", " ", "third", " ", "level">>
    [] name = "HE" -> <<"Summary">>
    [] name = "H4" -> <<"Summary", " ", "fourth">>
    [] name = "T1" -> <<"Title", " ", "intro">>
    [] name = "D2" -> <<"Details", " ", "detail">>
    [] name = "B" -> <<"Summary:", " ", "from", " ", "bold">>
    [] name = "P" -> <<"first", " ", "&", " ", "para">>
    [] name = "X" -> <<"bare", " ", "<", "text", ">">>
    [] OTHER -> <<"lorem600">>

SectionText(name) ==
  CASE name = "H2" -> <<"from", " ", "heading">>
    [] name = "H3" -> <<"third", " ", "level">>
    [] OTHER -> <<>>

ParagraphText(name) ==
  CASE name = "H2" -> <<"from", " ", "heading">>
    [] name = "D2" -> <<"detail">>
    [] name = "B" -> BlockText("B")
    [] OTHER -> BlockText("P")

SummaryHeadings == {"H2", "H3", "HE"}
StartsWithHeading == SummaryHeadings \cup {"T1", "D2"}
HasParagraph == {"H2", "D2", "B", "P"}

\* texts put one after the other, a space between them
RECURSIVE JoinTexts(_)
JoinTexts(texts) ==
  IF texts = <<>> THEN <<>>
  ELSE LET rest == JoinTexts(Tail(texts))
       IN IF Head(texts) = <<>> THEN rest
          ELSE IF rest = <<>> THEN Head(texts)
          ELSE Head(texts) \o <<" ">> \o rest

FirstOf(names, S) == Leftmost({ i \in 1..Len(names) : names[i] \in S })

\* the text of the section opened by block i: what is under its heading and
\* every following block up to the next heading
SectionOf(names, i) ==
  LET next == { j \in (i + 1)..Len(names) : names[j] \in StartsWithHeading }
      last == IF next = {} THEN Len(names) ELSE Leftmost(next) - 1
  IN JoinTexts(<<SectionText(names[i])>>
                 \o [k \in 1..(last - i) |-> BlockText(names[i + k])])

Has(names, S) == \E i \in 1..Len(names) : names[i] \in S

\* C18: extractSummary applies its four patterns in fixed priority: the
\* section under a level-2/3 "Summary" heading wins wherever it stands, then
\* the paragraph with a bold "Summary:" label, then the first paragraph, and
\* only then the first 500 characters of the cleaned page.
C18_PatternPriority ==
  (Returned("extractSummary") /\ fv.value.t = "string" /\ fv.text # <<>>) =>
    LET names == fv.text
    IN fv.out =
         IF Has(names, SummaryHeadings)
         THEN Str(SectionOf(names, FirstOf(names, SummaryHeadings)))
         ELSE IF Has(names, {"B"}) THEN Str(<<"from", " ", "bold">>)
         ELSE IF Has(names, HasParagraph)
         THEN Str(ParagraphText(names[FirstOf(names, HasParagraph)]))
         ELSE Str(Substring(JoinTexts([k \in 1..Len(names) |-> BlockText(names[k])]),
                            FallbackChars))

C18_Witness ==
  /\ Returned("extractSummary")
  /\ fv.text = <<"P", "B", "H2">>
  /\ fv.out = Str(<<"from", " ", "heading">>)

---------------------------------------------------------------------------
(* Properties of getSummary: specification SpecSummary *)

\* list position i has issued its GET
Issued(i) == \E g \in 1..Len(wiki.gets) : wiki.gets[g].i = i

\* the GET of list position i came back with a 2xx status and a body
Fetched(i) ==
  /\ Issued(i)
  /\ wiki.calls[i].st = "settled"
  /\ wiki.calls[i].answer.kind = "response"
  /\ wiki.calls[i].answer.status \in 200..299
  /\ wiki.calls[i].answer.data \notin {Null, Undefined}

UrlByCoercion(v) ==
  IF v.t = "string" THEN (IF StartsWith(v.s, <<"http">>) THEN v ELSE Null)
  ELSE IF v.t \in {"object", "array"}
  THEN IF Truthy(Get(v, <<"url">>)) THEN Get(v, <<"url">>)
       ELSE IF Truthy(Get(v, <<"value">>)) THEN Get(v, <<"value">>)
       ELSE Str(ToStr(v))
  ELSE Null

\* the URL of a field value probing url, value, href and nothing else
UrlByProbes(v) ==
  IF v.t = "string" THEN (IF StartsWith(v.s, <<"http">>) THEN v ELSE Null)
  ELSE IF v.t \in {"object", "array"}
  THEN IF Truthy(Get(v, <<"url">>)) THEN Get(v, <<"url">>)
       ELSE IF Truthy(Get(v, <<"value">>)) THEN Get(v, <<"value">>)
       ELSE IF Truthy(Get(v, <<"href">>)) THEN Get(v, <<"href">>)
       ELSE Null
  ELSE Null

\* C16 as stated: getSummary takes an object's url, then its value, then its
\* string form; when no URL comes out the result is success false with the
\* error "No valid URL provided" and no request is made.
C16_NoValidUrl ==
  (wiki.fn = "getSummary" /\ wiki.calls[1].st # "timer") =>
    /\ wiki.calls[1].url = UrlByCoercion(wiki.urls[1])
    /\ ~Truthy(UrlByCoercion(wiki.urls[1])) =>
         /\ wiki.returned # NoOut
         /\ ~wiki.returned.success
         /\ wiki.returned.error = Str(<<"No valid URL provided">>)
         /\ wiki.gets = <<>>

\* C16 amended: getSummary takes an object's url, then its value, then its
\* href, and nothing else; when no URL comes out the result is success
\* false, summary null, with the error "No valid Confluence URL provided",
\* and no request is made.
C16_ProbesUrlValueHref ==
  (wiki.fn = "getSummary" /\ wiki.calls[1].st # "timer") =>
    /\ wiki.calls[1].url = UrlByProbes(wiki.urls[1])
    /\ ~Truthy(UrlByProbes(wiki.urls[1])) =>
         /\ wiki.returned =
              Resolved(FALSE, Null, Undefined, Str(<<"No valid Confluence URL provided">>))
         /\ wiki.gets = <<>>

C16_Witness ==
  /\ wiki.fn = "getSummary"
  /\ wiki.urls = <<Arr(<<Str(PageUrl)>>)>>
  /\ wiki.returned # NoOut
  /\ wiki.returned.error = Str(<<"No valid Confluence URL provided">>)
  /\ wiki.gets = <<>>

\* positions of u where "pages/" or "pageId=" is followed by a digit
PageIdMarks(u) ==
  { i \in 1..(Len(u) - 1) : u[i] \in {"pages/", "pageId="} /\ u[i + 1] \in DigitLexemes }

\* r is the whole run of digits that starts at position from of u
IsDigitRunAt(u, from, r) ==
  /\ r # <<>>
  /\ from + Len(r) - 1 <= Len(u)
  /\ r = SubSeq(u, from, from + Len(r) - 1)
  /\ \A k \in 1..Len(r) : r[k] \in DigitLexemes
  /\ (from + Len(r) <= Len(u) => u[from + Len(r)] \notin DigitLexemes)

\* C17: extractPageId returns the digits that follow "pages/" or "pageId="
\* ("123456789" and "42" for the two URL forms) and null when neither
\* occurs; when it returns null, getSummary fails without any request.
C17_PageId ==
  (wiki.fn = "getSummary" /\ wiki.calls[1].st # "timer"
     /\ wiki.calls[1].url.t = "string" /\ StartsWith(wiki.calls[1].url.s, <<"http">>)) =>
    LET u == wiki.calls[1].url.s
        id == extractPageId(wiki.calls[1].url)
    IN /\ u = PageUrl => id = Str(<<"123456789">>)
       /\ u = ViewUrl => id = Str(<<"42">>)
       /\ IF PageIdMarks(u) = {}
          THEN /\ id = Null
               /\ wiki.returned # NoOut
               /\ ~wiki.returned.success
               /\ wiki.gets = <<>>
          ELSE /\ id.t = "string"
               /\ IsDigitRunAt(u, Leftmost(PageIdMarks(u)) + 1, id.s)
               /\ Truthy(OrElse(wiki.userToken, wiki.token)) =>
                    /\ Len(wiki.gets) = 1
                    /\ wiki.gets[1].apiUrl = ApiUrl(id.s)

C17_Witness ==
  /\ wiki.fn = "getSummary"
  /\ wiki.calls[1].url = Str(ViewUrl)
  /\ Len(wiki.gets) = 1
  /\ wiki.gets[1].apiUrl = ApiUrl(<<"42">>)

---------------------------------------------------------------------------
(* Properties of getSummaries: specification SpecBatch *)

\* the entry stored under key k of the returned mapping
EntryOf(k) ==
  wiki.returned.o[CHOOSE e \in 1..Len(wiki.returned.o) : wiki.returned.o[e].k = k].v

BatchReturned == wiki.fn = "getSummaries" /\ wiki.returned # NoOut

\* C19 as stated: for any list of N URLs the returned mapping has N keys,
\* the entry of each URL whose fetch failed has success false and every
\* other entry has success true.
C19_AllKeys ==
  BatchReturned =>
    /\ wiki.returned.t = "map"
    /\ Len(wiki.returned.o) = Len(wiki.urls)
    /\ \A i \in 1..Len(wiki.urls) :
         EntryOf(ToStr(wiki.urls[i])).success = Fetched(i)

\* C19 amended: the returned mapping has one key per distinct URL of the
\* list, so N keys when the N URLs are pairwise distinct, and then the entry
\* of each URL whose fetch failed has success false and every other entry
\* has success true; in every case getSummaries resolves, with every fetch
\* settled, and each entry is the result of one of the fetches of its URL.
C19_KeyPerDistinctUrl ==
  BatchReturned =>
    LET keys == { ToStr(wiki.urls[i]) : i \in 1..Len(wiki.urls) }
        distinct == \A i, j \in 1..Len(wiki.urls) :
                      i # j => wiki.urls[i] # wiki.urls[j]
    IN /\ wiki.returned.t = "map"
       /\ \A i \in 1..Len(wiki.calls) : wiki.calls[i].st = "settled"
       /\ { wiki.returned.o[e].k : e \in 1..Len(wiki.returned.o) } = keys
       /\ Len(wiki.returned.o) = Cardinality(keys)
       /\ \A k \in keys : \E i \in 1..Len(wiki.urls) :
            ToStr(wiki.urls[i]) = k /\ EntryOf(k) = wiki.calls[i].result
       /\ distinct =>
            /\ Len(wiki.returned.o) = Len(wiki.urls)
            /\ \A i \in 1..Len(wiki.urls) :
                 /\ EntryOf(ToStr(wiki.urls[i])) = wiki.calls[i].result
                 /\ EntryOf(ToStr(wiki.urls[i])).success = Fetched(i)

C19_Witness ==
  /\ BatchReturned
  /\ wiki.urls = <<Str(PageUrl), Str(TinyUrl), Str(ViewUrl)>>
  /\ Len(wiki.returned.o) = 3
  /\ EntryOf(PageUrl).success
  /\ ~EntryOf(TinyUrl).success
  /\ EntryOf(ViewUrl).success

\* C20: in a batch the fetch of list index i (from 0) does not start before
\* i x 100 ms after the call and not before the fetch of index i-1 has
\* started; getSummaries returns only when every fetch has settled.
C20_Staggered ==
  wiki.fn = "getSummaries" =>
    /\ \A i \in 1..Len(wiki.calls) :
         wiki.calls[i].st # "timer" =>
           /\ wiki.calls[i].at >= (i - 1) * 100
           /\ i > 1 => /\ wiki.calls[i - 1].st # "timer"
                        /\ wiki.calls[i - 1].at <= wiki.calls[i].at
    /\ wiki.returned # NoOut =>
         \A i \in 1..Len(wiki.calls) : wiki.calls[i].st = "settled"

\* a later fetch starts while an earlier one is in flight, and a failed
\* fetch has not made the batch return
C20_Witness ==
  /\ wiki.fn = "getSummaries"
  /\ Len(wiki.calls) = 3
  /\ wiki.calls[1].st = "settled" /\ ~wiki.calls[1].result.success
  /\ wiki.calls[2].st = "await"
  /\ wiki.calls[3].st = "await"
  /\ wiki.calls[3].at = 200
  /\ wiki.returned = NoOut

---------------------------------------------------------------------------
(* More properties of the client's functions: specification SpecFunctions *)

\* what one array element contributes to a text rendering: an object its
\* name, or its string form without one; a primitive its string form
ElementText(e) ==
  IF e.t = "object" /\ Truthy(Get(e, <<"name">>))
  THEN ToStr(Get(e, <<"name">>))
  ELSE ToStr(e)

RECURSIVE JoinElements(_)
JoinElements(a) ==
  IF a = <<>> THEN <<>>
  ELSE IF Len(a) = 1 THEN ElementText(a[1])
  ELSE ElementText(Head(a)) \o <<", ">> \o JoinElements(Tail(a))

\* the types formatFieldValue renders as text
TextTypes == {"text", "number", ""}

\* C23: formatFieldValue with type text, or an unknown type, renders every
\* array as its elements joined by ", ", an object element giving its name
\* (or string form) and a primitive element its string form, also when the
\* array mixes primitives and objects; a non-array object renders as its
\* displayName, else its name, else its string form
C23_TextArrays ==
  Returned("formatFieldValue") /\ fv.text[1] \in TextTypes =>
    /\ fv.value.t = "array" => fv.out = Str(JoinElements(fv.value.a))
    /\ fv.value.t = "object" =>
          fv.out = OrElse(Get(fv.value, <<"displayName">>),
                     OrElse(Get(fv.value, <<"name">>), Str(<<"[object Object]">>)))

\* number of characters of a summary: a lexeme cut by substring(0, n) counts
\* for its n characters
CutLength(x) ==
  LET cuts == { k \in 1..FallbackChars : x = "lorem600[0," \o ToString(k) \o ")" }
  IN IF cuts = {} THEN LexLen(x) ELSE Leftmost(cuts)

RECURSIVE OutLen(_)
OutLen(s) == IF s = <<>> THEN 0 ELSE CutLength(Head(s)) + OutLen(Tail(s))

\* the "Summary" heading that comes first has nothing under it and is
\* followed by a heading or by the end of the page
EmptySummarySection(names) ==
  /\ Has(names, SummaryHeadings)
  /\ LET i == FirstOf(names, SummaryHeadings)
     IN /\ names[i] = "HE"
        /\ i = Len(names) \/ names[i + 1] \in StartsWithHeading

C30_LongSection ==
  /\ Returned("extractSummary")
  /\ fv.text = <<"H3", "L">>
  /\ OutLen(fv.out.s) > FallbackChars

---------------------------------------------------------------------------
(* More properties of getSummaries: specification SpecBatch *)

\* the last list position that holds the same URL as position i
LastOccurrence(i) ==
  CHOOSE j \in 1..Len(wiki.urls) :
    /\ wiki.urls[j] = wiki.urls[i]
    /\ \A k \in 1..Len(wiki.urls) : wiki.urls[k] = wiki.urls[i] => k <= j

\* the GETs issued for list position i
GetsOf(i) == { g \in 1..Len(wiki.gets) : wiki.gets[g].i = i }

\* C29: in getSummaries the result stored under a URL is the result of the
\* fetch launched for that URL's list position, whatever order the fetches
\* complete in; a URL that occurs more than once is fetched once per
\* occurrence and its key holds the result of its last occurrence.
C29_LastOccurrence ==
  BatchReturned =>
    \A i \in 1..Len(wiki.urls) :
      /\ EntryOf(ToStr(wiki.urls[i])) = wiki.calls[LastOccurrence(i)].result
      /\ Cardinality(GetsOf(i)) <= 1
      /\ Cardinality(GetsOf(i)) = Cardinality(GetsOf(LastOccurrence(i)))
      /\ \A g \in GetsOf(i) :
           /\ wiki.gets[g] = [i |-> i,
                               apiUrl |-> ApiUrl(extractPageId(wiki.urls[i]).s),
                               authorization |-> <<"Bearer ">> \o ToStr(wiki.userToken)]
           /\ wiki.calls[i].result = getSummarySettle(wiki.calls[i].answer)

\* the same URL twice: the second fetch came back first, not found, the first
\* one later with the page, and the key holds the result of the second
C29_Witness ==
  /\ BatchReturned
  /\ wiki.urls = <<Str(PageUrl), Str(PageUrl)>>
  /\ wiki.order = <<2, 1>>
  /\ Cardinality(GetsOf(1)) = 1 /\ Cardinality(GetsOf(2)) = 1
  /\ wiki.calls[1].result.success
  /\ ~wiki.calls[2].result.success
  /\ Len(wiki.returned.o) = 1
  /\ ~EntryOf(PageUrl).success

---------------------------------------------------------------------------
(* More properties of the strategies: specification SpecStrategy *)

\* the Authorization header of a basic-auth attempt with one username format
BasicHeader(userFormat) ==
  <<"Authorization",
    <<"Basic ", "base64(">> \o userFormat \o <<":">> \o CleanToken(config.pat.s)
      \o <<")">> >>

Attempted(userFormat) ==
  \E k \in 1..Len(posts) : posts[k].header = BasicHeader(userFormat)

BasicFailed ==
  call.entry = "tryBasicAuthRequest" /\ pc = "done" /\ loop.search.k = "throw"

\* C24: the basic-auth strategy fails only after every username format of
\* its list (bare, with the fixed domain suffix, smart choice) has been
\* attempted, for usernames with and without "@"
C24_EveryFormatTried ==
  BasicFailed =>
    \A v \in 1..Len(usernameFormats(config.username)) :
      Attempted(usernameFormats(config.username)[v])

---------------------------------------------------------------------------
(* More properties of the search path: specification Spec *)

\* makeJiraRequest has returned a response to fetchAllData / refreshColumns
SearchReturned == SearchStarted /\ pc = "done" /\ loop.search.k = "return"

\* the HTML-body check of fetchAllData / refreshColumns has fired
HtmlCheckFired ==
  result.k = "throw" /\ Includes(result.error.message, HtmlLoginMessage)

\* C28 as stated: every response makeJiraRequest returns has status 200 and
\* a non-null JSON object as body, the HTML-body check of fetchAllData /
\* refreshColumns never fires and they return that object.
C28_ObjectBody ==
  /\ ~HtmlCheckFired
  /\ SearchReturned =>
       /\ loop.search.response.status = 200
       /\ loop.search.response.data.t = "object"
       /\ result.k = "return"
       /\ result.data = loop.search.response.data

\* C28 amended: every response makeJiraRequest returns has status 200 and a
\* body that is a non-null value of type object, a JSON object or a JSON
\* array, never a string; the HTML-body check of fetchAllData /
\* refreshColumns never fires and they return that body.
C28_ObjectOrArrayBody ==
  /\ ~HtmlCheckFired
  /\ SearchReturned =>
       /\ loop.search.response.status = 200
       /\ loop.search.response.data.t \in {"object", "array"}
       /\ ~Includes(loop.search.response.contentType, <<"text/html">>)
       /\ result.k = "return"
       /\ result.data = loop.search.response.data

\* a search answered 200 with a JSON object that holds one issue
C28_Witness ==
  /\ SearchReturned
  /\ loop.search.response.data.t = "object"
  /\ Get(loop.search.response.data, <<"total">>) = Num(1)
  /\ result.k = "return"
  /\ result.data = loop.search.response.data

\* the keys of one row of a response
KeysOf(row) == { row[i].k : i \in 1..Len(row) }

\* GET /api/fetch-all-data has answered with rows
FetchAllAnswered ==
  call.entry = "/api/fetch-all-data" /\ pc = "done" /\ res.success /\ res.issues # <<>>

\* what GET /api/refresh-columns answers when the tracker gives the same
\* answer to its search
RefreshReply ==
  HandlerSettle("/api/refresh-columns",
                ClientSettle("refreshColumns", loop.search, config), config)

\* C22: the rows of GET /api/fetch-all-data contain all configured fields
\* (allPossibleFields) and those of GET /api/refresh-columns only the fields
\* of the display-column schema: when the two field sets differ, the rows of
\* the two endpoints have different key sets.
C22_DifferentKeySets ==
  FetchAllAnswered =>
    LET all == FieldsOf("fetchAllData", config)
        shown == FieldsOf("refreshColumns", config)
    IN /\ \A r \in 1..Len(res.issues) : \A f \in 1..Len(all.f) :
            all.f[f][1] \in KeysOf(res.issues[r])
       /\ (~IsThrow(shown) /\ RefreshReply.success
             /\ { all.f[f] : f \in 1..Len(all.f) } # { shown.f[f] : f \in 1..Len(shown.f) })
            => \A r \in 1..Len(res.issues) :
                 KeysOf(res.issues[r]) # KeysOf(RefreshReply.issues[r])

---------------------------------------------------------------------------
(* Properties of the server process: specification SpecServer *)

\* the base URL or the token is missing from the configuration
ConfigurationMissing ==
  config.baseUrl = <<>> \/ config.pat \in {Undefined, Null, Str(<<>>)}

\* a request has been taken up by a handler
RequestHandled == call # NoCall

\* C21: when the tracker base URL or the API token is missing at startup the
\* construction of JiraClient throws and the process exits before it
\* listens; so whenever a request is handled the configured base URL and
\* token are both non-empty.
C21_ValidatedBeforeServing ==
  /\ pc # "boot" => (pc = "exited" <=> ConfigurationMissing)
  /\ pc = "exited" =>
       ~RequestHandled /\ posts = <<>> /\ res = NoRes /\ wiki = NoWiki
  /\ RequestHandled =>
       /\ config.baseUrl # <<>>
       /\ config.pat.t = "string" /\ config.pat.s # <<>>

\* the token is missing: the process has exited without serving
C21_Witness ==
  /\ pc = "exited"
  /\ config.baseUrl # <<>>
  /\ config.pat = Str(<<>>)
  /\ ~RequestHandled

\* the request to the tracker was rejected by the network with this code,
\* and the handler has answered
FailedWith(codes) ==
  /\ pc = "done"
  /\ call.entry \in Endpoints \cup {"/api/issue/:key"}
  /\ loop.answer.kind = "reject"
  /\ loop.answer.error.code \in codes

\* C25: a search or issue-detail request that fails because of a DNS or
\* connection failure surfaces a message with the connectivity hint, and one
\* that fails because of a timeout a message with the timeout hint, on
\* every path that reports tracker errors (fetchAllData, refreshColumns,
\* getIssueDetails).
C25_NetworkHints ==
  /\ FailedWith({"ENOTFOUND", "ECONNREFUSED"}) =>
       /\ result.k = "throw"
       /\ Includes(result.error.message, ConnectHint(config.baseUrl))
       /\ res.error = result.error.message
  /\ FailedWith({"ECONNABORTED"}) =>
       /\ result.k = "throw"
       /\ Includes(result.error.message, TimeoutHint)
       /\ res.error = result.error.message

\* GET /api/issue/:key has answered
IssueHandled == call.entry = "/api/issue/:key" /\ pc = "done"

\* the answers of the tracker that are HTTP failures other than not-found
OtherHttpFailures ==
  { o \in IssueOutcomes :
      o.kind = "response" /\ o.response.status \notin (200..299) \cup {404} }

\* C26: getIssueDetails issues exactly one GET by key, with bearer auth and
\* the configured token, without fallback or retry; an answer of the 404
\* class gives a failure that can be told from every other tracker HTTP
\* failure, in the error thrown and in the response of GET /api/issue/:key.
C26_NotFoundDistinct ==
  IssueHandled =>
    /\ Len(posts) = 1
    /\ posts[1].header = <<"Authorization", <<"Bearer ">> \o CleanToken(config.pat.s)>>
    /\ \E key \in IssueKeys :
         posts[1].url = CleanBaseUrl(config.baseUrl) \o <<"/rest/api/2/issue/">> \o key
    /\ (loop.answer.kind = "response" /\ loop.answer.response.status = 404) =>
         /\ result.k = "throw"
         /\ \A o \in OtherHttpFailures :
              /\ getIssueDetailsSettle(o, config).error # result.error
              /\ IssueReply(getIssueDetailsSettle(o, config)) # res

\* an endpoint has answered with a failure envelope
FailureEnvelope == pc = "done" /\ ~res.success

\* C27: no error response of any endpoint carries a stack trace unless the
\* process runs in development mode: outside development mode the details
\* field is absent from every failure envelope (and from every response).
C27_NoStackOutsideDevelopment ==
  config.nodeEnv # "development" => ~res.details

\* outside development mode a catch block of fetch-all-data or
\* refresh-columns has answered, without details
C27_Witness ==
  /\ FailureEnvelope
  /\ config.nodeEnv # "development"
  /\ call.entry \in {"/api/fetch-all-data", "/api/refresh-columns"}
  /\ result.k = "throw"
  /\ ~res.details

\* in development mode the same catch block sends the stack
C27_DevelopmentDetails ==
  /\ FailureEnvelope
  /\ config.nodeEnv = "development"
  /\ call.entry \in {"/api/fetch-all-data", "/api/refresh-columns"}
  /\ res.details

====
